---- MODULE Spec2Model ----
(***************************************************************************)
(* ThreadInstrument: per-thread activity profiling, the thread registry,   *)
(* the event-name registry and the global log, modelled from               *)
(* src/src/thread_instrument.cpp and                                       *)
(* src/include/thread_instrument/thread_instrument.h.                      *)
(*                                                                         *)
(* The library is modelled as built with THREADINSTRUMENT defined and with *)
(* assertions enabled: a failed assert terminates the process (aborted).   *)
(* Time points are integers (clock ticks since the clock's epoch) and a    *)
(* duration in seconds is a difference of ticks.                           *)
(***************************************************************************)
EXTENDS Integers, Sequences, FiniteSets, TLC

(***************************************************************************)
(* Bounds of the model.                                                    *)
(***************************************************************************)
NThreads == 2       \* threads of the client program
MaxClock == 2       \* last tick of the clock
MaxBegins == 2      \* beginActivity calls the client program makes

Threads == 1..NThreads          \* the std::thread::id values

RUN_ACT == 0                    \* the event codes the client programs use
SPRINTF_ACT == 1
Codes == {RUN_ACT, SPRINTF_ACT}

Null == 0                       \* nullptr
Epoch == 0                      \* time_point_t(): the clock's epoch
StartExecutionTimePoint == 1    \* clock_t::now() at static initialisation

VARIABLES
  now,               \* value clock_t::now() returns
  GlobalEventMap,    \* ConcurrentSMap<thread::id, IdentifiedEventData>
  NProfiledThreads,  \* std::atomic<unsigned>
  aborted,           \* an assert failed (or exit was called)
  pc,                \* per thread: position inside the library call
  op,                \* per thread: the call in progress and its arguments
  newp,              \* per thread: the Node a push in progress allocated
  nbegin,            \* per thread and code: beginActivity calls returned
  nend,              \* per thread and code: endActivity calls returned
  pcMain,            \* the reporting thread: "run" or "report"
  allActivity,       \* the map the last getAllActivity() returned
  readers_,          \* AccessControl_t::readers_ of the SafeEventCollector
  writer_,           \* AccessControl_t::writer_
  eventNames_,       \* SafeEventCollector::eventNames_
  returned,          \* the (name, code) pairs getEventNumber has returned
  ninterns,          \* getEventNumber calls made
  Log,               \* ConcurrentSList<LogEvent>
  LogLimit,          \* maximum number of log events to dump, 0 for no limit
  Locked_Log,        \* whether the Log is locked
  LogPrinters,       \* std::map<unsigned, LogPrinter_t>
  AllLogPrinter,     \* the generic printer
  lastReg,           \* per code: the printer last passed to registerLogPrinter
  CommonI,           \* the client's counter that numbers the logged payloads
  out,               \* the lines written to the stream given to dumpLog
  mynums,            \* per thread: the values getMyThreadNumber has returned
  Inspector,         \* user function to run when SIGUSR1 is received
  lastInspector,     \* the argument of the latest registerInspector call
  inspections,       \* the inspectors the signal handler has called, in order
  nsignals,          \* SIGUSR1 deliveries so far
  sigdumps,          \* dumpLog calls the signal handler has made itself
  THREADINSTRUMENT,  \* whether the client is compiled with the macro defined
  call,              \* the latest beginActivity / endActivity / getActivity
                     \* call a client made with no regard to the calls
                     \* before it or to what the other threads are doing
  buf,               \* the characters in the client's own char buffer
  gotName,           \* the latest getEventName call and what it returned
  proc               \* the process: what it wrote to std::cerr, its exit
                     \* status once exit was called, the files it can open

nameVars == <<readers_, writer_, eventNames_, returned, ninterns>>
logVars == <<Log, LogLimit, Locked_Log, CommonI, out>>
printVars == <<LogPrinters, AllLogPrinter, lastReg>>
sigVars == <<Inspector, lastInspector, inspections, nsignals, sigdumps>>
auxVars == <<mynums, sigVars, THREADINSTRUMENT, call, buf, gotName, proc>>

vars == <<now, GlobalEventMap, NProfiledThreads, aborted, pc, op, newp,
          nbegin, nend, pcMain, allActivity, nameVars, logVars, printVars, auxVars>>

(***************************************************************************)
(* Small helpers.                                                          *)
(***************************************************************************)
Min(S) == CHOOSE x \in S : \A y \in S : x <= y

RECURSIVE SumOver(_, _)
SumOver(S, f) ==
  IF S = {} THEN 0
  ELSE LET x == CHOOSE y \in S : TRUE IN f[x] + SumOver(S \ {x}, f)

(***************************************************************************)
(* ConcurrentSList<T>: head_ and the Nodes {next_, item_} it allocated.    *)
(* A list is [head, next, item]; next and item are functions on the        *)
(* addresses of the live nodes. new returns the lowest free address, so    *)
(* the address of a deleted node is reused.                                *)
(***************************************************************************)
EmptyList == [head |-> Null, next |-> <<>>, item |-> <<>>]

NewNode(L) ==
  Min({p \in 1..(Cardinality(DOMAIN L.next) + 1) : p \notin DOMAIN L.next})

\* new Node {nullptr, val}
NodeAlloc(L, val) ==
  [L EXCEPT !.next = (NewNode(L) :> Null) @@ @,
            !.item = (NewNode(L) :> val) @@ @]

\* push(Node*): newp->next_ = head_.load()
PushLoad(L, p) == [L EXCEPT !.next[p] = L.head]

\* push(Node*): head_.compare_exchange_weak(newp->next_, newp) succeeds
PushCasSucceeds(L, p) == L.head = L.next[p]

\* push(Node*): one compare_exchange_weak; on failure the expected value,
\* which is newp->next_ itself, is reloaded from head_
PushCasBlind(L, p) == [L EXCEPT !.head = p]

PushCas(L, p) ==
  IF PushCasSucceeds(L, p) THEN [L EXCEPT !.head = p]
  ELSE [L EXCEPT !.next[p] = L.head]

\* the nodes an iterator visits from p on, in order
RECURSIVE ChainFrom(_, _)
ChainFrom(L, p) ==
  IF p = Null THEN <<>> ELSE <<p>> \o ChainFrom(L, L.next[p])

Chain(L) == ChainFrom(L, L.head)

unsafe_size(L) == Len(Chain(L))

(***************************************************************************)
(* ConcurrentSMap<Key, Val>: a ConcurrentSList of pairs. The item of a     *)
(* node of GlobalEventMap is [first, id_, int2EventDataMap_].              *)
(***************************************************************************)
RECURSIVE FindFrom(_, _, _)
FindFrom(L, p, key) ==
  IF p = Null THEN Null
  ELSE IF L.item[p].first = key THEN p
  ELSE FindFrom(L, L.next[p], key)

findAnyKey(L, key) == L.head

\* find(key): the iterator's node, Null for end()
find(L, key) == FindFrom(L, L.head, key)

RegistryItemZero(key, in_id) ==
  [first |-> key, id_ |-> 0, int2EventDataMap_ |-> <<>>]

\* the value_type emplace pushes for IdentifiedEventData(in_id)
RegistryItem(key, in_id) ==
  [first |-> key, id_ |-> in_id, int2EventDataMap_ |-> <<>>]

RECURSIVE ByNumberFrom(_, _, _)
ByNumberFrom(L, p, id) ==
  IF p = Null THEN Null
  ELSE IF L.item[p].id_ = id THEN p
  ELSE ByNumberFrom(L, L.next[p], id)

\* getThreadDataByNumber(id): the node whose id_ is id; Null fails the assert
getThreadDataByNumber(L, id) == ByNumberFrom(L, L.head, id)

(***************************************************************************)
(* EventData and the profiling primitives.                                 *)
(***************************************************************************)
\* EventData()
EventData0 ==
  [time |-> 0, lastInvocation |-> Epoch, invocations |-> 0,
   currentlyRunning |-> FALSE]

\* std::map::operator[]: inserts a default EventData when the key is absent
MapIndex(m, k) == IF k \in DOMAIN m THEN m ELSE (k :> EventData0) @@ m

\* EventData::operator+=
EventDataPlusNoTime(a, b) ==
  [a EXCEPT !.invocations = @ + b.invocations,
            !.currentlyRunning = @ \/ b.currentlyRunning]

EventDataPlus(a, b) ==
  [a EXCEPT !.time = @ + b.time,
            !.invocations = @ + b.invocations,
            !.currentlyRunning = @ \/ b.currentlyRunning]

\* begin_activity_inner on the calling thread's map m; ok is the assert
BeginInnerNoCount(m, activity, clk) ==
  LET m1 == MapIndex(m, activity)
      ed == m1[activity]
  IN  IF ed.currentlyRunning THEN [m |-> m1, ok |-> FALSE]
      ELSE [m |-> [m1 EXCEPT ![activity] =
                      [ed EXCEPT !.lastInvocation = clk,
                                 !.currentlyRunning = TRUE]],
            ok |-> TRUE]

BeginInnerNoAssert(m, activity, clk) ==
  LET m1 == MapIndex(m, activity)
      ed == m1[activity]
  IN  [m |-> [m1 EXCEPT ![activity] =
                 [ed EXCEPT !.invocations = @ + 1,
                            !.lastInvocation = clk,
                            !.currentlyRunning = TRUE]],
       ok |-> TRUE]

begin_activity_inner(m, activity, clk) ==
  LET m1 == MapIndex(m, activity)
      ed == m1[activity]
  IN  IF ed.currentlyRunning THEN [m |-> m1, ok |-> FALSE]
      ELSE [m |-> [m1 EXCEPT ![activity] =
                      [ed EXCEPT !.invocations = @ + 1,
                                 !.lastInvocation = clk,
                                 !.currentlyRunning = TRUE]],
            ok |-> TRUE]

EndInnerNoAssert(m, activity, t) ==
  IF activity \notin DOMAIN m THEN [m |-> m, ok |-> FALSE]
  ELSE [m |-> [m EXCEPT ![activity] =
                  [@ EXCEPT !.time = @ + (t - m[activity].lastInvocation),
                            !.lastInvocation = t,
                            !.currentlyRunning = FALSE]],
        ok |-> TRUE]

EndInnerLeavesRunning(m, activity, t) ==
  IF activity \notin DOMAIN m THEN [m |-> m, ok |-> FALSE]
  ELSE IF ~m[activity].currentlyRunning THEN [m |-> m, ok |-> FALSE]
  ELSE [m |-> [m EXCEPT ![activity] =
                  [@ EXCEPT !.time = @ + (t - m[activity].lastInvocation),
                            !.lastInvocation = t]],
        ok |-> TRUE]

\* end_activity_inner on the calling thread's map m, t the clock it read
end_activity_inner(m, activity, t) ==
  IF activity \notin DOMAIN m THEN [m |-> m, ok |-> FALSE]
  ELSE IF ~m[activity].currentlyRunning THEN [m |-> m, ok |-> FALSE]
  ELSE [m |-> [m EXCEPT ![activity] =
                  [@ EXCEPT !.time = @ + (t - m[activity].lastInvocation),
                            !.lastInvocation = t,
                            !.currentlyRunning = FALSE]],
        ok |-> TRUE]

\* the body of the call op, run on the map of registry node p
InnerBody(L, p, o, clk) ==
  LET m == L.item[p].int2EventDataMap_
      r == IF o.kind = "begin" THEN begin_activity_inner(m, o.activity, clk)
           ELSE end_activity_inner(m, o.activity, o.t)
  IN  [list |-> [L EXCEPT !.item[p].int2EventDataMap_ = r.m], ok |-> r.ok]

(***************************************************************************)
(* getAllActivity                                                          *)
(***************************************************************************)
\* the loop over m2 of getAllActivity: r = m[key]; r += value
RECURSIVE AddMapKeys(_, _, _)
AddMapKeys(m, m2, keys) ==
  IF keys = {} THEN m
  ELSE LET k == Min(keys)
           m1 == MapIndex(m, k)
       IN  AddMapKeys([m1 EXCEPT ![k] = EventDataPlus(@, m2[k])], m2,
                      keys \ {k})

\* the loop for (i = from; i < n; ++i); ok is getThreadDataByNumber's assert
RECURSIVE AllActivityLoop(_, _, _, _)
AllActivityLoop(L, m, i, n) ==
  IF i >= n THEN [m |-> m, ok |-> TRUE]
  ELSE LET p == getThreadDataByNumber(L, i)
       IN  IF p = Null THEN [m |-> m, ok |-> FALSE]
           ELSE LET m2 == L.item[p].int2EventDataMap_
                IN  AllActivityLoop(L, AddMapKeys(m, m2, DOMAIN m2), i + 1, n)

getAllActivitySkipOne(L) ==
  LET n == unsafe_size(L)
      p == getThreadDataByNumber(L, 0)
  IN  IF n = 0 THEN [m |-> <<>>, ok |-> TRUE]
      ELSE IF p = Null THEN [m |-> <<>>, ok |-> FALSE]
      ELSE AllActivityLoop(L, L.item[p].int2EventDataMap_, 2, n)

getAllActivity(L) ==
  LET n == unsafe_size(L)
      p == getThreadDataByNumber(L, 0)
  IN  IF n = 0 THEN [m |-> <<>>, ok |-> TRUE]
      ELSE IF p = Null THEN [m |-> <<>>, ok |-> FALSE]
      ELSE AllActivityLoop(L, L.item[p].int2EventDataMap_, 1, n)

(***************************************************************************)
(* Initial state: after static initialisation, before main.                *)
(***************************************************************************)
NoOp == [kind |-> "none", activity |-> 0, t |-> Epoch]

\* the library after static initialisation
InitLibrary ==
  /\ now = StartExecutionTimePoint
  /\ GlobalEventMap = EmptyList
  /\ NProfiledThreads = 0
  /\ aborted = FALSE
  /\ pc = [t \in Threads |-> "idle"]
  /\ op = [t \in Threads |-> NoOp]
  /\ newp = [t \in Threads |-> Null]
  /\ nbegin = [t \in Threads |-> [c \in Codes |-> 0]]
  /\ nend = [t \in Threads |-> [c \in Codes |-> 0]]
  /\ pcMain = "run"
  /\ allActivity = <<>>
  /\ readers_ = 0
  /\ writer_ = FALSE
  /\ eventNames_ = {}
  /\ returned = {}
  /\ ninterns = 0
  /\ Log = EmptyList
  /\ LogLimit = 0
  /\ Locked_Log = FALSE
  /\ LogPrinters = <<>>
  /\ AllLogPrinter = "defaultPrinter"
  /\ lastReg = [c \in Codes |-> "nullptr"]
  /\ CommonI = 0
  /\ out = <<>>
  /\ mynums = [t \in Threads |-> {}]
  /\ Inspector = "nullptr"
  /\ lastInspector = "nullptr"
  /\ inspections = <<>>
  /\ nsignals = 0
  /\ sigdumps = 0
  /\ call = [seq |-> 0, thread |-> 0, kind |-> "none", activity |-> 0]
  /\ buf = "SPRINTF_ACT"
  /\ gotName = [seq |-> 0, event |-> 0, name |-> [text |-> "", addr |-> Null],
                chars |-> ""]
  /\ proc = [cerr |-> <<>>, status |-> "running", openable |-> {"tilog.txt"}]

\* the client is compiled with -DTHREADINSTRUMENT
Init ==
  /\ InitLibrary
  /\ THREADINSTRUMENT = TRUE

(***************************************************************************)
(* The clock advances.                                                     *)
(***************************************************************************)
Tick ==
  /\ ~aborted
  /\ now < MaxClock
  /\ now' = now + 1
  /\ UNCHANGED <<nameVars, logVars, printVars, auxVars>>
  /\ UNCHANGED <<GlobalEventMap, NProfiledThreads, aborted, pc, op, newp,
                 nbegin, nend, pcMain, allActivity>>

(***************************************************************************)
(* beginActivity / endActivity. The call runs GetThreadRawData: find, and  *)
(* on a miss NProfiledThreads++, push (load, CAS loop) and find again;     *)
(* then the body of begin_activity_inner / end_activity_inner.             *)
(***************************************************************************)
\* the call returns: the client counts it
Returned(t, o) ==
  /\ nbegin' = IF o.kind = "begin"
               THEN [nbegin EXCEPT ![t][o.activity] = @ + 1] ELSE nbegin
  /\ nend' = IF o.kind = "end"
             THEN [nend EXCEPT ![t][o.activity] = @ + 1] ELSE nend

\* GetThreadRawData's first find and, on a hit, the body
CallProfiling(t, o) ==
  LET p == find(GlobalEventMap, t)
  IN  IF p = Null
      THEN /\ pc' = [pc EXCEPT ![t] = "reg"]
           /\ op' = [op EXCEPT ![t] = o]
           /\ UNCHANGED <<GlobalEventMap, aborted, nbegin, nend>>
      ELSE LET r == InnerBody(GlobalEventMap, p, o, now)
           IN  /\ GlobalEventMap' = r.list
               /\ aborted' = ~r.ok
               /\ IF r.ok THEN Returned(t, o)
                  ELSE UNCHANGED <<nbegin, nend>>
               /\ UNCHANGED <<pc, op>>

\* beginActivity calls made so far, returned or in progress
BeginsIssued ==
  SumOver(Threads, [u \in Threads |-> SumOver(Codes, nbegin[u])])
    + Cardinality({u \in Threads : op[u].kind = "begin"})

BeginActivity(t, c) ==
  /\ ~aborted /\ pcMain = "run"
  /\ pc[t] = "idle"
  /\ nbegin[t][c] = nend[t][c]
  /\ BeginsIssued < MaxBegins
  /\ CallProfiling(t, [kind |-> "begin", activity |-> c, t |-> Epoch])
  /\ UNCHANGED <<nameVars, logVars, printVars, auxVars>>
  /\ UNCHANGED <<now, NProfiledThreads, newp, pcMain, allActivity>>

EndActivity(t, c) ==
  /\ ~aborted /\ pcMain = "run"
  /\ pc[t] = "idle"
  /\ nbegin[t][c] > nend[t][c]
  /\ CallProfiling(t, [kind |-> "end", activity |-> c, t |-> now])
  /\ UNCHANGED <<nameVars, logVars, printVars, auxVars>>
  /\ UNCHANGED <<now, NProfiledThreads, newp, pcMain, allActivity>>

\* IdentifiedEventData(NProfiledThreads++) and new Node
RegFetchAdd(t) ==
  /\ ~aborted
  /\ pc[t] = "reg"
  /\ NProfiledThreads' = NProfiledThreads + 1
  /\ newp' = [newp EXCEPT ![t] = NewNode(GlobalEventMap)]
  /\ GlobalEventMap' = NodeAlloc(GlobalEventMap,
                                 RegistryItem(t, NProfiledThreads))
  /\ pc' = [pc EXCEPT ![t] = "load"]
  /\ UNCHANGED <<nameVars, logVars, printVars, auxVars>>
  /\ UNCHANGED <<now, aborted, op, nbegin, nend, pcMain, allActivity>>

RegPushLoad(t) ==
  /\ ~aborted
  /\ pc[t] = "load"
  /\ GlobalEventMap' = PushLoad(GlobalEventMap, newp[t])
  /\ pc' = [pc EXCEPT ![t] = "cas"]
  /\ UNCHANGED <<nameVars, logVars, printVars, auxVars>>
  /\ UNCHANGED <<now, NProfiledThreads, aborted, op, newp, nbegin, nend,
                 pcMain, allActivity>>

RegPushCas(t) ==
  /\ ~aborted
  /\ pc[t] = "cas"
  /\ GlobalEventMap' = PushCas(GlobalEventMap, newp[t])
  /\ pc' = [pc EXCEPT
              ![t] = IF PushCasSucceeds(GlobalEventMap, newp[t])
                     THEN "refind" ELSE "cas"]
  /\ UNCHANGED <<nameVars, logVars, printVars, auxVars>>
  /\ UNCHANGED <<now, NProfiledThreads, aborted, op, newp, nbegin, nend,
                 pcMain, allActivity>>

\* emplace's find(key), then the body on the entry found
RegFind(t) ==
  /\ ~aborted
  /\ pc[t] = "refind"
  /\ LET p == find(GlobalEventMap, t)
         r == InnerBody(GlobalEventMap, p, op[t], now)
     IN  /\ GlobalEventMap' = r.list
         /\ aborted' = ~r.ok
         /\ IF r.ok THEN Returned(t, op[t]) ELSE UNCHANGED <<nbegin, nend>>
  /\ pc' = [pc EXCEPT ![t] = "idle"]
  /\ op' = [op EXCEPT ![t] = NoOp]
  /\ newp' = [newp EXCEPT ![t] = Null]
  /\ UNCHANGED <<nameVars, logVars, printVars, auxVars>>
  /\ UNCHANGED <<now, NProfiledThreads, pcMain, allActivity>>

(***************************************************************************)
(* The reporting thread calls getAllActivity() while no thread is inside a *)
(* profiling call, reads the map it got and goes on.                       *)
(***************************************************************************)
Quiescent == \A t \in Threads : pc[t] = "idle"

GetAllActivity ==
  /\ ~aborted /\ pcMain = "run"
  /\ Quiescent
  /\ LET r == getAllActivity(GlobalEventMap)
     IN  /\ allActivity' = r.m
         /\ aborted' = ~r.ok
  /\ pcMain' = "report"
  /\ UNCHANGED <<nameVars, logVars, printVars, auxVars>>
  /\ UNCHANGED <<now, GlobalEventMap, NProfiledThreads, pc, op, newp,
                 nbegin, nend>>

MainResume ==
  /\ ~aborted /\ pcMain = "report"
  /\ pcMain' = "run"
  /\ allActivity' = <<>>
  /\ UNCHANGED <<nameVars, logVars, printVars, auxVars>>
  /\ UNCHANGED <<now, GlobalEventMap, NProfiledThreads, aborted, pc, op,
                 newp, nbegin, nend>>

NextProf ==
  \/ Tick
  \/ \E t \in Threads, c \in Codes : BeginActivity(t, c)
  \/ \E t \in Threads, c \in Codes : EndActivity(t, c)
  \/ \E t \in Threads : RegFetchAdd(t)
  \/ \E t \in Threads : RegPushLoad(t)
  \/ \E t \in Threads : RegPushCas(t)
  \/ \E t \in Threads : RegFind(t)

SpecProf == Init /\ [][NextProf]_vars

\* the profiling threads and the reporting thread
NextReport ==
  \/ NextProf
  \/ GetAllActivity
  \/ MainResume

SpecReport == Init /\ [][NextReport]_vars

(***************************************************************************)
(* getEventNumber: SafeEventCollector::registerEvent under the             *)
(* multiple-reader single-writer protocol of AccessControl_t. A C string   *)
(* is its characters and the address of the caller's copy; eventNames_ is  *)
(* a set of pairs [first, second], ordered and searched by the characters  *)
(* of first (ltstr).                                                       *)
(***************************************************************************)
MaxInterns == 3     \* getEventNumber calls the client program makes

EventNames == {"SPRINTF_ACT", "WAIT_ACT"}

CString(text, addr) == [text |-> text, addr |-> addr]

\* the address of the client's own char buffer; every other const char * is
\* a string literal, named by its characters and the thread that passes it
BufAddr == NThreads + 1

\* the characters strcmp reads at p
Chars(p) == IF p.addr = BufAddr THEN buf ELSE p.text

\* eventNames_.find(name): the entries whose key has the characters of name
MapFind(names, name) == {e \in names : Chars(e.first) = Chars(name)}

\* eventNames_.insert({name, num}): no effect when the key is present
MapInsert(names, name, num) ==
  IF MapFind(names, name) # {} THEN names
  ELSE names \cup {[first |-> name, second |-> num]}

WriteSectionNoRecheck(names, name) ==
  [names |-> MapInsert(names, name, Cardinality(names)),
   num |-> Cardinality(names)]

WriteSectionOffByOne(names, name) ==
  IF MapFind(names, name) # {}
  THEN [names |-> names,
        num |-> (CHOOSE e \in MapFind(names, name) : TRUE).second]
  ELSE [names |-> MapInsert(names, name, Cardinality(names) + 1),
        num |-> Cardinality(names) + 1]

\* registerEvent between writer_enter and writer_exit
WriteSection(names, name) ==
  IF MapFind(names, name) # {}
  THEN [names |-> names,
        num |-> (CHOOSE e \in MapFind(names, name) : TRUE).second]
  ELSE [names |-> MapInsert(names, name, Cardinality(names)),
        num |-> Cardinality(names)]

NotFound == -1

\* the call: getEventNumber(event) enters registerEvent
GetEventNumber(t, text) ==
  /\ ~aborted
  /\ pc[t] = "idle"
  /\ ninterns < MaxInterns
  /\ ninterns' = ninterns + 1
  /\ op' = [op EXCEPT ![t] = [kind |-> "intern", name |-> CString(text, t),
                              num |-> NotFound]]
  /\ pc' = [pc EXCEPT ![t] = "r_inc"]
  /\ UNCHANGED <<now, GlobalEventMap, NProfiledThreads, aborted, newp,
                 nbegin, nend, pcMain, allActivity, logVars, printVars, auxVars>>
  /\ UNCHANGED <<readers_, writer_, eventNames_, returned>>

\* what every step inside registerEvent leaves alone
NamesFrame ==
  UNCHANGED <<now, GlobalEventMap, NProfiledThreads, aborted, newp, nbegin,
              nend, pcMain, allActivity, logVars, printVars, auxVars, ninterns>>

\* reader_enter: readers_++
ReaderInc(t) ==
  /\ pc[t] = "r_inc"
  /\ readers_' = readers_ + 1
  /\ pc' = [pc EXCEPT ![t] = "r_chk"]
  /\ UNCHANGED <<writer_, eventNames_, returned, op>>
  /\ NamesFrame

\* reader_enter: if (writer_)
ReaderCheck(t) ==
  /\ pc[t] = "r_chk"
  /\ pc' = [pc EXCEPT ![t] = IF writer_ THEN "r_dec" ELSE "r_find"]
  /\ UNCHANGED <<readers_, writer_, eventNames_, returned, op>>
  /\ NamesFrame

ReaderBackOutKeepsCount(t) ==
  /\ pc[t] = "r_dec"
  /\ pc' = [pc EXCEPT ![t] = "r_spin"]
  /\ UNCHANGED <<readers_, writer_, eventNames_, returned, op>>
  /\ NamesFrame

\* reader_enter: readers_-- before spinning
ReaderBackOut(t) ==
  /\ pc[t] = "r_dec"
  /\ readers_' = readers_ - 1
  /\ pc' = [pc EXCEPT ![t] = "r_spin"]
  /\ UNCHANGED <<writer_, eventNames_, returned, op>>
  /\ NamesFrame

\* reader_enter: while (writer_); ends
ReaderSpin(t) ==
  /\ pc[t] = "r_spin"
  /\ ~writer_
  /\ pc' = [pc EXCEPT ![t] = "r_inc"]
  /\ UNCHANGED <<readers_, writer_, eventNames_, returned, op>>
  /\ NamesFrame

\* it = eventNames_.find(name) inside the read section
ReaderFind(t) ==
  /\ pc[t] = "r_find"
  /\ LET hit == MapFind(eventNames_, op[t].name)
     IN  op' = [op EXCEPT ![t].num =
                  IF hit = {} THEN NotFound
                  ELSE (CHOOSE e \in hit : TRUE).second]
  /\ pc' = [pc EXCEPT ![t] = "r_exit"]
  /\ UNCHANGED <<readers_, writer_, eventNames_, returned>>
  /\ NamesFrame

\* reader_exit; then return it->second when found
ReaderExit(t) ==
  /\ pc[t] = "r_exit"
  /\ readers_' = readers_ - 1
  /\ IF op[t].num # NotFound
     THEN /\ returned' = returned \cup {<<op[t].name.text, op[t].num>>}
          /\ pc' = [pc EXCEPT ![t] = "idle"]
          /\ op' = [op EXCEPT ![t] = NoOp]
     ELSE /\ pc' = [pc EXCEPT ![t] = "w_xchg"]
          /\ UNCHANGED <<returned, op>>
  /\ UNCHANGED <<writer_, eventNames_>>
  /\ NamesFrame

\* writer_enter: writer_.exchange(true) returns false
WriterExchange(t) ==
  /\ pc[t] = "w_xchg"
  /\ ~writer_
  /\ writer_' = TRUE
  /\ pc' = [pc EXCEPT ![t] = "w_wait"]
  /\ UNCHANGED <<readers_, eventNames_, returned, op>>
  /\ NamesFrame

WriterWaitNoSpin(t) ==
  /\ pc[t] = "w_wait"
  /\ pc' = [pc EXCEPT ![t] = "w_sec"]
  /\ UNCHANGED <<readers_, writer_, eventNames_, returned, op>>
  /\ NamesFrame

\* writer_enter: while (readers_); ends
WriterWait(t) ==
  /\ pc[t] = "w_wait"
  /\ readers_ = 0
  /\ pc' = [pc EXCEPT ![t] = "w_sec"]
  /\ UNCHANGED <<readers_, writer_, eventNames_, returned, op>>
  /\ NamesFrame

\* the second find and the insert, inside the write section
WriterSection(t) ==
  /\ pc[t] = "w_sec"
  /\ LET r == WriteSection(eventNames_, op[t].name)
     IN  /\ eventNames_' = r.names
         /\ op' = [op EXCEPT ![t].num = r.num]
  /\ pc' = [pc EXCEPT ![t] = "w_exit"]
  /\ UNCHANGED <<readers_, writer_, returned>>
  /\ NamesFrame

\* writer_exit; return num
WriterExit(t) ==
  /\ pc[t] = "w_exit"
  /\ writer_' = FALSE
  /\ returned' = returned \cup {<<op[t].name.text, op[t].num>>}
  /\ pc' = [pc EXCEPT ![t] = "idle"]
  /\ op' = [op EXCEPT ![t] = NoOp]
  /\ UNCHANGED <<readers_, eventNames_>>
  /\ NamesFrame

NextNames ==
  \/ \E t \in Threads, text \in EventNames : GetEventNumber(t, text)
  \/ \E t \in Threads : ReaderInc(t)
  \/ \E t \in Threads : ReaderCheck(t)
  \/ \E t \in Threads : ReaderBackOut(t)
  \/ \E t \in Threads : ReaderSpin(t)
  \/ \E t \in Threads : ReaderFind(t)
  \/ \E t \in Threads : ReaderExit(t)
  \/ \E t \in Threads : WriterExchange(t)
  \/ \E t \in Threads : WriterWait(t)
  \/ \E t \in Threads : WriterSection(t)
  \/ \E t \in Threads : WriterExit(t)

SpecNames == Init /\ [][NextNames]_vars

(***************************************************************************)
(* The consumer side of ConcurrentSList.                                   *)
(***************************************************************************)
\* delete p
DeleteNode(L, p) ==
  [L EXCEPT !.next = [q \in (DOMAIN @) \ {p} |-> @[q]],
            !.item = [q \in (DOMAIN @) \ {p} |-> @[q]]]

ReverseLoopOnePass(L, p, pp1) ==
  IF pp1 = Null THEN [list |-> L, p |-> p]
  ELSE [list |-> [L EXCEPT !.next[pp1] = p], p |-> pp1]

\* reverse(): the loop for (pp1 = p->next_; pp1 != nullptr; pp1 = pp2)
RECURSIVE ReverseLoop(_, _, _)
ReverseLoop(L, p, pp1) ==
  IF pp1 = Null THEN [list |-> L, p |-> p]
  ELSE ReverseLoop([L EXCEPT !.next[pp1] = p], pp1, L.next[pp1])

reverseNot(L) == L

\* reverse()
reverse(L) ==
  IF L.head = Null THEN L
  ELSE LET r == ReverseLoop(L, L.head, L.next[L.head])
       IN  [r.list EXCEPT !.next[L.head] = Null, !.head = r.p]

tryHeadPopKeepHead(L) ==
  IF L.head = Null THEN [ok |-> FALSE, list |-> L]
  ELSE [ok |-> TRUE, val |-> L.item[L.head], list |-> L]

\* try_head_pop(val): from the top of the list
try_head_pop(L) ==
  IF L.head = Null THEN [ok |-> FALSE, list |-> L]
  ELSE [ok |-> TRUE, val |-> L.item[L.head],
        list |-> DeleteNode([L EXCEPT !.head = L.next[L.head]], L.head)]

\* while (how_many--) Log.try_head_pop(l)
RECURSIVE PopMany(_, _)
PopMany(L, how_many) ==
  IF how_many = 0 THEN L ELSE PopMany(try_head_pop(L).list, how_many - 1)

\* the items from the head on
Items(L) == [i \in 1..Len(Chain(L)) |-> L.item[Chain(L)[i]]]

(***************************************************************************)
(* The log: LogEvent, log_inner / timed_log_inner, dumpLog, logLimit and   *)
(* the printers. A printer is named by its function; the string it returns *)
(* is the tuple of its name and its arguments.                             *)
(***************************************************************************)
MaxLogs == 3        \* log calls the client program makes
MaxLimit == 2       \* largest argument the client passes to logLimit

\* the null function pointer
nullptr == "nullptr"

LogPrinterFunctions == {"sprintf_act_printer", "wait_act_printer"}
AllLogPrinterFunctions == {"defaultPrinter", "generic_printer"}

\* LogEvent(when, event_id, data) and LogEvent(event_id, data)
LogEvent(t, when, event_id, data) ==
  [id_ |-> t, when_ |-> when, data_ |-> data, event_id_ |-> event_id]

\* GetThreadRawData(id) run with no other thread inside the registry
GetThreadRawData(L, n, key) ==
  IF find(L, key) # Null THEN [list |-> L, n |-> n, it |-> find(L, key)]
  ELSE LET p == NewNode(L)
           L1 == PushCas(PushLoad(NodeAlloc(L, RegistryItem(key, n)), p), p)
       IN  [list |-> L1, n |-> n + 1, it |-> find(L1, key)]

RenderGenericOnly(l, printers, generic) ==
  <<generic, l.event_id_, l.data_>>

\* the printer lookup of dumpLog and the call of the printer
Render(l, printers, generic) ==
  IF l.event_id_ \in DOMAIN printers
  THEN <<printers[l.event_id_], l.data_>>
  ELSE <<generic, l.event_id_, l.data_>>

LineAlwaysTimed(l, thread_num, printers, generic) ==
  [thread_num |-> thread_num,
   timed |-> TRUE,
   when |-> l.when_ - StartExecutionTimePoint,
   text |-> Render(l, printers, generic)]

\* the line dumpLog prints for l: "Th %3u %lf %s" or "Th %3u %s"
Line(l, thread_num, printers, generic) ==
  LET when == l.when_ - StartExecutionTimePoint
  IN  [thread_num |-> thread_num,
       timed |-> when > 0,
       when |-> IF when > 0 THEN when ELSE 0,
       text |-> Render(l, printers, generic)]

DumpPcs == {"trim", "render", "dumped"}
NoDump == \A u \in Threads : pc[u] \notin DumpPcs

LogFrame ==
  UNCHANGED <<now, nbegin, nend, pcMain, allActivity, nameVars, printVars, auxVars>>

LogCallRegisters(t, event, is_timed) ==
  /\ ~aborted
  /\ pc[t] = "idle"
  /\ NoDump
  /\ CommonI < MaxLogs
  /\ CommonI' = CommonI + 1
  /\ GlobalEventMap' =
       GetThreadRawData(GlobalEventMap, NProfiledThreads, t).list
  /\ NProfiledThreads' =
       GetThreadRawData(GlobalEventMap, NProfiledThreads, t).n
  /\ Log' = PushLoad(NodeAlloc(Log, LogEvent(t, IF is_timed THEN now ELSE Epoch,
                                             event, CommonI)),
                     NewNode(Log))
  /\ newp' = [newp EXCEPT ![t] = NewNode(Log)]
  /\ op' = [op EXCEPT ![t] = [kind |-> "log", data |-> CommonI]]
  /\ pc' = [pc EXCEPT ![t] = "log_cas"]
  /\ UNCHANGED <<aborted, LogLimit, Locked_Log, out>>
  /\ LogFrame

\* log(event, data, is_timed) with data = CommonI.fetch_add(1): the
\* LogEvent, new Node and newp->next_ = head_.load() of push
LogCall(t, event, is_timed) ==
  /\ ~aborted
  /\ pc[t] = "idle"
  /\ NoDump
  /\ CommonI < MaxLogs
  /\ CommonI' = CommonI + 1
  /\ IF Locked_Log
     THEN UNCHANGED <<Log, pc, op, newp>>
     ELSE /\ Log' = PushLoad(
                      NodeAlloc(Log,
                                LogEvent(t, IF is_timed THEN now ELSE Epoch,
                                         event, CommonI)),
                      NewNode(Log))
          /\ newp' = [newp EXCEPT ![t] = NewNode(Log)]
          /\ op' = [op EXCEPT ![t] = [kind |-> "log", data |-> CommonI]]
          /\ pc' = [pc EXCEPT ![t] = "log_cas"]
  /\ UNCHANGED <<GlobalEventMap, NProfiledThreads, aborted, LogLimit,
                 Locked_Log, out>>
  /\ LogFrame

\* push: one compare_exchange_weak of the loop
LogPushCas(t) ==
  /\ ~aborted
  /\ pc[t] = "log_cas"
  /\ Log' = PushCas(Log, newp[t])
  /\ IF PushCasSucceeds(Log, newp[t])
     THEN /\ pc' = [pc EXCEPT ![t] = "idle"]
          /\ op' = [op EXCEPT ![t] = NoOp]
          /\ newp' = [newp EXCEPT ![t] = Null]
     ELSE UNCHANGED <<pc, op, newp>>
  /\ UNCHANGED <<GlobalEventMap, NProfiledThreads, aborted, LogLimit,
                 Locked_Log, CommonI, out>>
  /\ LogFrame

\* logLimit(nlogs)
SetLogLimit(nlogs) ==
  /\ ~aborted
  /\ Quiescent
  /\ LogLimit' = nlogs
  /\ UNCHANGED <<GlobalEventMap, NProfiledThreads, aborted, pc, op, newp,
                 Log, Locked_Log, CommonI, out>>
  /\ LogFrame

\* dumpLog(s) is called: Log.reverse() and, with a limit, cur_size
DumpLog(d) ==
  /\ ~aborted
  /\ Quiescent
  /\ Log' = reverse(Log)
  /\ op' = [op EXCEPT ![d] = [kind |-> "dump",
                              cur_size |-> unsafe_size(reverse(Log)),
                              from |-> Len(out),
                              logged |-> Items(reverse(Log))]]
  /\ pc' = [pc EXCEPT ![d] = IF LogLimit # 0 THEN "trim" ELSE "render"]
  /\ UNCHANGED <<GlobalEventMap, NProfiledThreads, aborted, newp, LogLimit,
                 Locked_Log, CommonI, out>>
  /\ LogFrame

\* one pass of while (LogLimit < cur_size): how_many pops
DumpTrim(d) ==
  /\ ~aborted
  /\ pc[d] = "trim"
  /\ LogLimit < op[d].cur_size
  /\ Log' = PopMany(Log, op[d].cur_size - LogLimit)
  /\ UNCHANGED <<GlobalEventMap, NProfiledThreads, aborted, pc, op, newp,
                 LogLimit, Locked_Log, CommonI, out>>
  /\ LogFrame

DumpTrimDonePopsOne(d) ==
  /\ ~aborted
  /\ pc[d] = "trim"
  /\ ~(LogLimit < op[d].cur_size)
  /\ Log' = PopMany(Log, 1)
  /\ pc' = [pc EXCEPT ![d] = "render"]
  /\ UNCHANGED <<GlobalEventMap, NProfiledThreads, aborted, op, newp,
                 LogLimit, Locked_Log, CommonI, out>>
  /\ LogFrame

\* while (LogLimit < cur_size) ends
DumpTrimDone(d) ==
  /\ ~aborted
  /\ pc[d] = "trim"
  /\ ~(LogLimit < op[d].cur_size)
  /\ pc' = [pc EXCEPT ![d] = "render"]
  /\ UNCHANGED <<GlobalEventMap, NProfiledThreads, aborted, op, newp, Log,
                 LogLimit, Locked_Log, CommonI, out>>
  /\ LogFrame

\* one pass of while (Log.try_head_pop(l)): the entry is printed
DumpPop(d) ==
  /\ ~aborted
  /\ pc[d] = "render"
  /\ try_head_pop(Log).ok
  /\ LET r == try_head_pop(Log)
         g == GetThreadRawData(GlobalEventMap, NProfiledThreads, r.val.id_)
     IN  /\ Log' = r.list
         /\ GlobalEventMap' = g.list
         /\ NProfiledThreads' = g.n
         /\ out' = Append(out, Line(r.val, g.list.item[g.it].id_,
                                    LogPrinters, AllLogPrinter))
  /\ UNCHANGED <<aborted, pc, op, newp, LogLimit, Locked_Log, CommonI>>
  /\ LogFrame

\* Log.try_head_pop(l) returns false: dumpLog returns
DumpReturn(d) ==
  /\ ~aborted
  /\ pc[d] = "render"
  /\ ~try_head_pop(Log).ok
  /\ pc' = [pc EXCEPT ![d] = "dumped"]
  /\ UNCHANGED <<GlobalEventMap, NProfiledThreads, aborted, op, newp, Log,
                 LogLimit, Locked_Log, CommonI, out>>
  /\ LogFrame

\* the caller of dumpLog goes on
DumpResume(d) ==
  /\ ~aborted
  /\ pc[d] = "dumped"
  /\ pc' = [pc EXCEPT ![d] = "idle"]
  /\ op' = [op EXCEPT ![d] = NoOp]
  /\ UNCHANGED <<GlobalEventMap, NProfiledThreads, aborted, newp, Log,
                 LogLimit, Locked_Log, CommonI, out>>
  /\ LogFrame

PrintFrame ==
  UNCHANGED <<now, GlobalEventMap, NProfiledThreads, aborted, pc, op, newp,
              nbegin, nend, pcMain, allActivity, nameVars, logVars,
              auxVars>>

\* registerLogPrinter(event, printer)
RegisterLogPrinter(event, printer) ==
  /\ ~aborted
  /\ Quiescent
  /\ LogPrinters' =
       IF printer = nullptr
       THEN [c \in (DOMAIN LogPrinters) \ {event} |-> LogPrinters[c]]
       ELSE (event :> printer) @@ LogPrinters
  /\ lastReg' = [lastReg EXCEPT ![event] = printer]
  /\ UNCHANGED AllLogPrinter
  /\ PrintFrame

RegisterAllLogPrinterKeepsNull(printer) ==
  /\ ~aborted
  /\ Quiescent
  /\ AllLogPrinter' = printer
  /\ UNCHANGED <<LogPrinters, lastReg>>
  /\ PrintFrame

\* registerLogPrinter(printer) for the generic printer
RegisterAllLogPrinter(printer) ==
  /\ ~aborted
  /\ Quiescent
  /\ AllLogPrinter' = IF printer = nullptr THEN "defaultPrinter" ELSE printer
  /\ UNCHANGED <<LogPrinters, lastReg>>
  /\ PrintFrame

\* the thread that runs main(): it configures the library and dumps the log
MainThread == 1

\* logging threads and dumps by main, with a limit on the entries dumped
NextLog ==
  \/ \E t \in Threads : LogCall(t, RUN_ACT, FALSE)
  \/ \E t \in Threads : LogPushCas(t)
  \/ \E nlogs \in 0..MaxLimit : SetLogLimit(nlogs)
  \/ DumpLog(MainThread)
  \/ DumpTrim(MainThread)
  \/ DumpTrimDone(MainThread)
  \/ DumpPop(MainThread)
  \/ DumpReturn(MainThread)
  \/ DumpResume(MainThread)

SpecLog == Init /\ [][NextLog]_vars

\* main logs and dumps, and registers and removes printers
NextPrint ==
  \/ \E event \in Codes : LogCall(MainThread, event, FALSE)
  \/ LogPushCas(MainThread)
  \/ \E event \in Codes, printer \in LogPrinterFunctions \cup {nullptr} :
       RegisterLogPrinter(event, printer)
  \/ \E printer \in AllLogPrinterFunctions \cup {nullptr} :
       RegisterAllLogPrinter(printer)
  \/ DumpLog(MainThread)
  \/ DumpPop(MainThread)
  \/ DumpReturn(MainThread)
  \/ DumpResume(MainThread)

SpecPrint == Init /\ [][NextPrint]_vars

(***************************************************************************)
(* The registry under every caller of GetThreadRawData: a thread looking   *)
(* itself up (getMyThreadNumber) and dumpLog looking up the thread of the  *)
(* entry it renders, each step of the registration on its own.             *)
(***************************************************************************)
RegFrame ==
  UNCHANGED <<now, aborted, nbegin, nend, pcMain, allActivity, nameVars,
              printVars, sigVars, THREADINSTRUMENT, call, buf, gotName, proc,
              LogLimit, Locked_Log,
              CommonI>>

\* getMyThreadNumber(): GetThreadRawData's find; on a hit, return id_
GetMyThreadNumber(t) ==
  /\ ~aborted
  /\ pc[t] = "idle"
  /\ LET p == find(GlobalEventMap, t)
     IN  IF p = Null
         THEN /\ pc' = [pc EXCEPT ![t] = "k_reg"]
              /\ op' = [op EXCEPT ![t] = [kind |-> "mynum", key |-> t]]
              /\ UNCHANGED mynums
         ELSE /\ mynums' = [mynums EXCEPT
                              ![t] = @ \cup {GlobalEventMap.item[p].id_}]
              /\ UNCHANGED <<pc, op>>
  /\ UNCHANGED <<GlobalEventMap, NProfiledThreads, newp, Log, out>>
  /\ RegFrame

KeyRegFetchAddDescending(t) ==
  /\ ~aborted
  /\ pc[t] = "k_reg"
  /\ NProfiledThreads' = NProfiledThreads + 1
  /\ newp' = [newp EXCEPT ![t] = NewNode(GlobalEventMap)]
  /\ GlobalEventMap' = NodeAlloc(GlobalEventMap,
                                 RegistryItem(op[t].key,
                                              NThreads - NProfiledThreads))
  /\ pc' = [pc EXCEPT ![t] = "k_load"]
  /\ UNCHANGED <<op, Log, out, mynums>>
  /\ RegFrame

\* IdentifiedEventData(NProfiledThreads++) and new Node, for the key looked up
KeyRegFetchAdd(t) ==
  /\ ~aborted
  /\ pc[t] = "k_reg"
  /\ NProfiledThreads' = NProfiledThreads + 1
  /\ newp' = [newp EXCEPT ![t] = NewNode(GlobalEventMap)]
  /\ GlobalEventMap' = NodeAlloc(GlobalEventMap,
                                 RegistryItem(op[t].key, NProfiledThreads))
  /\ pc' = [pc EXCEPT ![t] = "k_load"]
  /\ UNCHANGED <<op, Log, out, mynums>>
  /\ RegFrame

\* push: newp->next_ = head_.load()
KeyRegPushLoad(t) ==
  /\ ~aborted
  /\ pc[t] = "k_load"
  /\ GlobalEventMap' = PushLoad(GlobalEventMap, newp[t])
  /\ pc' = [pc EXCEPT ![t] = "k_cas"]
  /\ UNCHANGED <<NProfiledThreads, op, newp, Log, out, mynums>>
  /\ RegFrame

\* push: one compare_exchange_weak of the loop
KeyRegPushCas(t) ==
  /\ ~aborted
  /\ pc[t] = "k_cas"
  /\ GlobalEventMap' = PushCas(GlobalEventMap, newp[t])
  /\ pc' = [pc EXCEPT
              ![t] = IF PushCasSucceeds(GlobalEventMap, newp[t])
                     THEN "k_refind" ELSE "k_cas"]
  /\ UNCHANGED <<NProfiledThreads, op, newp, Log, out, mynums>>
  /\ RegFrame

\* emplace's find(key); getMyThreadNumber returns the id_ of the entry found
MyNumberReturn(t) ==
  /\ ~aborted
  /\ pc[t] = "k_refind"
  /\ op[t].kind = "mynum"
  /\ mynums' = [mynums EXCEPT
                  ![t] = @ \cup {GlobalEventMap.item[
                                   find(GlobalEventMap, t)].id_}]
  /\ pc' = [pc EXCEPT ![t] = "idle"]
  /\ op' = [op EXCEPT ![t] = NoOp]
  /\ newp' = [newp EXCEPT ![t] = Null]
  /\ UNCHANGED <<GlobalEventMap, NProfiledThreads, Log, out>>
  /\ RegFrame

\* one pass of while (Log.try_head_pop(l)) up to GetThreadRawData's find;
\* on a hit the entry is printed
DumpPopFind(d) ==
  /\ ~aborted
  /\ pc[d] = "render"
  /\ try_head_pop(Log).ok
  /\ LET r == try_head_pop(Log)
         p == find(GlobalEventMap, r.val.id_)
     IN  /\ Log' = r.list
         /\ IF p = Null
            THEN /\ pc' = [pc EXCEPT ![d] = "k_reg"]
                 /\ op' = [op EXCEPT
                             ![d] = [kind |-> "dump",
                                     cur_size |-> op[d].cur_size,
                                     from |-> op[d].from,
                                     logged |-> op[d].logged,
                                     l |-> r.val,
                                     key |-> r.val.id_]]
                 /\ UNCHANGED out
            ELSE /\ out' = Append(out, Line(r.val, GlobalEventMap.item[p].id_,
                                            LogPrinters, AllLogPrinter))
                 /\ UNCHANGED <<pc, op>>
  /\ UNCHANGED <<GlobalEventMap, NProfiledThreads, newp, mynums>>
  /\ RegFrame

\* emplace's find(key) inside dumpLog; the entry is printed
DumpRegPrint(d) ==
  /\ ~aborted
  /\ pc[d] = "k_refind"
  /\ op[d].kind = "dump"
  /\ out' = Append(out,
                   Line(op[d].l,
                        GlobalEventMap.item[
                          find(GlobalEventMap, op[d].key)].id_,
                        LogPrinters, AllLogPrinter))
  /\ pc' = [pc EXCEPT ![d] = "render"]
  /\ op' = [op EXCEPT ![d] = [kind |-> "dump",
                              cur_size |-> op[d].cur_size,
                              from |-> op[d].from,
                              logged |-> op[d].logged]]
  /\ newp' = [newp EXCEPT ![d] = Null]
  /\ UNCHANGED <<GlobalEventMap, NProfiledThreads, Log, mynums>>
  /\ RegFrame

MaxRegLogs == 1     \* log calls the client makes next to the registrations

\* log(RUN_ACT, CommonI++) by a thread that may not be registered yet
RegLogCall(t) ==
  /\ CommonI < MaxRegLogs
  /\ LogCall(t, RUN_ACT, FALSE)

\* threads log and ask for their number while main dumps the log
NextReg ==
  \/ \E t \in Threads : GetMyThreadNumber(t)
  \/ \E t \in Threads : KeyRegFetchAdd(t)
  \/ \E t \in Threads : KeyRegPushLoad(t)
  \/ \E t \in Threads : KeyRegPushCas(t)
  \/ \E t \in Threads : MyNumberReturn(t)
  \/ \E t \in Threads : RegLogCall(t)
  \/ \E t \in Threads : LogPushCas(t)
  \/ DumpLog(MainThread)
  \/ DumpPopFind(MainThread)
  \/ DumpRegPrint(MainThread)
  \/ DumpReturn(MainThread)
  \/ DumpResume(MainThread)

SpecReg == Init /\ [][NextReg]_vars

(***************************************************************************)
(* dumpLog while other threads log: reverse() and try_head_pop() step by   *)
(* step, one step per access to head_. The loop of reverse() writes only   *)
(* the next_ of nodes already linked, which no push reads, so it is one    *)
(* step with the load of head_ before it.                                  *)
(***************************************************************************)
RaceFrame ==
  UNCHANGED <<now, aborted, nbegin, nend, pcMain, allActivity, nameVars,
              printVars, auxVars, LogLimit, Locked_Log>>

\* the nodes met from p on, stopping at a node met before or at a freed one
RECURSIVE WalkFrom(_, _, _)
WalkFrom(L, p, seen) ==
  IF p = Null \/ p \in seen \/ p \notin DOMAIN L.next THEN <<>>
  ELSE <<p>> \o WalkFrom(L, L.next[p], seen \cup {p})

Walk(L) == WalkFrom(L, L.head, {})

\* the pointer the walk from the head stops at: Null for a proper list
RECURSIVE WalkEnd(_, _, _)
WalkEnd(L, p, seen) ==
  IF p = Null \/ p \in seen \/ p \notin DOMAIN L.next THEN p
  ELSE WalkEnd(L, L.next[p], seen \cup {p})

\* log(RUN_ACT, CommonI++) whatever the other threads are doing
LogCallAnyTime(t) ==
  /\ ~aborted
  /\ pc[t] = "idle"
  /\ ~Locked_Log
  /\ CommonI < MaxLogs
  /\ CommonI' = CommonI + 1
  /\ Log' = PushLoad(NodeAlloc(Log, LogEvent(t, Epoch, RUN_ACT, CommonI)),
                     NewNode(Log))
  /\ newp' = [newp EXCEPT ![t] = NewNode(Log)]
  /\ op' = [op EXCEPT ![t] = [kind |-> "log", data |-> CommonI]]
  /\ pc' = [pc EXCEPT ![t] = "log_cas"]
  /\ UNCHANGED <<GlobalEventMap, NProfiledThreads, out>>
  /\ RaceFrame

\* the CAS of push, other threads being anywhere
LogCasAnyTime(t) ==
  /\ ~aborted
  /\ pc[t] = "log_cas"
  /\ Log' = PushCas(Log, newp[t])
  /\ IF PushCasSucceeds(Log, newp[t])
     THEN /\ pc' = [pc EXCEPT ![t] = "idle"]
          /\ op' = [op EXCEPT ![t] = NoOp]
          /\ newp' = [newp EXCEPT ![t] = Null]
     ELSE UNCHANGED <<pc, op, newp>>
  /\ UNCHANGED <<GlobalEventMap, NProfiledThreads, CommonI, out>>
  /\ RaceFrame

\* dumpLog is called; reverse(): p = head_.load() and the loop
RevLoop(d) ==
  /\ ~aborted
  /\ pc[d] = "idle"
  /\ IF Log.head = Null
     THEN /\ pc' = [pc EXCEPT ![d] = "x_pop"]
          /\ op' = [op EXCEPT ![d] = [kind |-> "dump", from |-> Len(out),
                                      p |-> Null]]
          /\ UNCHANGED Log
     ELSE LET r == ReverseLoop(Log, Log.head, Log.next[Log.head])
          IN  /\ Log' = r.list
              /\ op' = [op EXCEPT ![d] = [kind |-> "dump",
                                          from |-> Len(out), p |-> r.p]]
              /\ pc' = [pc EXCEPT ![d] = "rv_cut"]
  /\ UNCHANGED <<GlobalEventMap, NProfiledThreads, newp, CommonI, out>>
  /\ RaceFrame

\* reverse(): (*head_).next_ = nullptr
RevCut(d) ==
  /\ ~aborted
  /\ pc[d] = "rv_cut"
  /\ Log' = [Log EXCEPT !.next[Log.head] = Null]
  /\ pc' = [pc EXCEPT ![d] = "rv_store"]
  /\ UNCHANGED <<GlobalEventMap, NProfiledThreads, op, newp, CommonI, out>>
  /\ RaceFrame

\* reverse(): head_ = p
RevStore(d) ==
  /\ ~aborted
  /\ pc[d] = "rv_store"
  /\ Log' = [Log EXCEPT !.head = op[d].p]
  /\ pc' = [pc EXCEPT ![d] = "x_pop"]
  /\ UNCHANGED <<GlobalEventMap, NProfiledThreads, op, newp, CommonI, out>>
  /\ RaceFrame

\* try_head_pop: p = head_.load(); false for nullptr ends dumpLog; a head_
\* that points to a freed node makes the rest undefined
PopLoad(d) ==
  /\ ~aborted
  /\ pc[d] = "x_pop"
  /\ pc' = [pc EXCEPT ![d] = IF Log.head = Null THEN "x_dumped"
                             ELSE IF Log.head \notin DOMAIN Log.next
                                  THEN "x_ub"
                                  ELSE "x_store"]
  /\ op' = [op EXCEPT ![d] = [kind |-> "dump", from |-> op[d].from,
                              p |-> Log.head]]
  /\ UNCHANGED <<GlobalEventMap, NProfiledThreads, newp, Log, CommonI, out>>
  /\ RaceFrame

\* try_head_pop: val = p->item_; head_ = p->next_; delete p; then the body
\* of the render loop prints val. When the list now leads back to a node or
\* to a freed one, what the next pops do is undefined.
PopStore(d) ==
  /\ ~aborted
  /\ pc[d] = "x_store"
  /\ LET p == op[d].p
         l == Log.item[p]
         g == GetThreadRawData(GlobalEventMap, NProfiledThreads, l.id_)
     IN  /\ Log' = DeleteNode([Log EXCEPT !.head = Log.next[p]], p)
         /\ GlobalEventMap' = g.list
         /\ NProfiledThreads' = g.n
         /\ out' = Append(out, Line(l, g.list.item[g.it].id_,
                                    LogPrinters, AllLogPrinter))
  /\ pc' = [pc EXCEPT
              ![d] = IF WalkEnd(Log', Log'.head, {}) = Null
                     THEN "x_pop" ELSE "x_ub"]
  /\ UNCHANGED <<op, newp, CommonI>>
  /\ RaceFrame

\* threads log while main dumps the log
NextRace ==
  \/ \E t \in Threads : LogCallAnyTime(t)
  \/ \E t \in Threads : LogCasAnyTime(t)
  \/ RevLoop(MainThread)
  \/ RevCut(MainThread)
  \/ RevStore(MainThread)
  \/ PopLoad(MainThread)
  \/ PopStore(MainThread)

SpecRace == Init /\ [][NextRace]_vars

(***************************************************************************)
(* SIGUSR1: catch_function, installed at static initialisation with        *)
(* signal(), and registerInspector. The signal is delivered while no       *)
(* thread is inside a library call.                                        *)
(***************************************************************************)
MaxSignals == 2     \* SIGUSR1 deliveries

\* myfunnyinspector prints and calls exit; the other one returns
Inspectors == {"myfunnyinspector", "other_inspector"}

\* the render loop of dumpLog run to its end on the list L
RECURSIVE RenderAll(_, _, _, _)
RenderAll(L, G, n, lines) ==
  IF ~try_head_pop(L).ok THEN [Log |-> L, G |-> G, n |-> n, lines |-> lines]
  ELSE LET r == try_head_pop(L)
           g == GetThreadRawData(G, n, r.val.id_)
       IN  RenderAll(r.list, g.list, g.n,
                     Append(lines, Line(r.val, g.list.item[g.it].id_,
                                        LogPrinters, AllLogPrinter)))

catchFunctionAlsoDumps(insp) ==
  [inspect |-> IF insp # nullptr THEN <<insp>> ELSE <<>>, dump |-> TRUE]

\* catch_function: the inspector it calls, and whether it calls dumpLog
catch_function(insp) ==
  IF insp # nullptr THEN [inspect |-> <<insp>>, dump |-> FALSE]
  ELSE [inspect |-> <<>>, dump |-> TRUE]

SigFrame ==
  UNCHANGED <<now, pc, op, newp, nbegin, nend, pcMain, allActivity,
              nameVars, printVars, mynums, THREADINSTRUMENT, call, buf, gotName, proc,
              LogLimit,
              Locked_Log, CommonI>>

\* registerInspector(inspector)
RegisterInspector(inspector) ==
  /\ ~aborted
  /\ Quiescent
  /\ Inspector' = inspector
  /\ lastInspector' = inspector
  /\ UNCHANGED <<GlobalEventMap, NProfiledThreads, aborted, Log, out,
                 inspections, nsignals, sigdumps>>
  /\ SigFrame

\* a SIGUSR1 is delivered and catch_function runs; a dump with a limit
\* below the size of the log would not return (DumpTrim)
Sigusr1 ==
  /\ ~aborted
  /\ Quiescent
  /\ nsignals < MaxSignals
  /\ ~(LogLimit # 0 /\ LogLimit < unsafe_size(Log))
  /\ nsignals' = nsignals + 1
  /\ LET h == catch_function(Inspector)
         r == RenderAll(reverse(Log), GlobalEventMap, NProfiledThreads, <<>>)
     IN  /\ inspections' = inspections \o h.inspect
         /\ aborted' = (h.inspect = <<"myfunnyinspector">>)
         /\ IF h.dump
            THEN /\ sigdumps' = sigdumps + 1
                 /\ Log' = r.Log
                 /\ GlobalEventMap' = r.G
                 /\ NProfiledThreads' = r.n
                 /\ out' = out \o r.lines
            ELSE UNCHANGED <<sigdumps, Log, GlobalEventMap,
                             NProfiledThreads, out>>
  /\ UNCHANGED <<Inspector, lastInspector>>
  /\ SigFrame

\* threads log, main registers inspectors, signals arrive
NextSig ==
  \/ \E t \in Threads : LogCall(t, RUN_ACT, FALSE)
  \/ \E t \in Threads : LogPushCas(t)
  \/ \E inspector \in Inspectors \cup {nullptr} : RegisterInspector(inspector)
  \/ Sigusr1

SpecSig == Init /\ [][NextSig]_vars

(***************************************************************************)
(* The inline functions of thread_instrument.h, whose bodies are inside    *)
(* #ifdef THREADINSTRUMENT. The client is one thread; it counts its calls  *)
(* in nbegin, nend and CommonI whichever way it was compiled. With the     *)
(* macro defined, a call by name runs registerEvent and the call by code   *)
(* with no other thread inside the library.                                *)
(***************************************************************************)
\* either build of the client
InitBuild ==
  /\ InitLibrary
  /\ THREADINSTRUMENT \in BOOLEAN

\* what a call compiled to nothing leaves alone
BuildFrame ==
  UNCHANGED <<now, GlobalEventMap, NProfiledThreads, aborted, pc, op, newp,
              pcMain, allActivity, nameVars, printVars, auxVars, Log,
              LogLimit, Locked_Log, out>>

ApiBeginActivityAlways(t, c) == BeginActivity(t, c)

\* beginActivity(int activity)
ApiBeginActivity(t, c) ==
  IF THREADINSTRUMENT THEN BeginActivity(t, c)
  ELSE /\ pc[t] = "idle"
       /\ nbegin[t][c] = nend[t][c]
       /\ BeginsIssued < MaxBegins
       /\ nbegin' = [nbegin EXCEPT ![t][c] = @ + 1]
       /\ UNCHANGED <<nend, CommonI>>
       /\ BuildFrame

\* endActivity(int activity)
ApiEndActivity(t, c) ==
  IF THREADINSTRUMENT THEN EndActivity(t, c)
  ELSE /\ pc[t] = "idle"
       /\ nbegin[t][c] > nend[t][c]
       /\ nend' = [nend EXCEPT ![t][c] = @ + 1]
       /\ UNCHANGED <<nbegin, CommonI>>
       /\ BuildFrame

\* log(int event, int data, bool is_timed) with data = CommonI++
ApiLog(t, event) ==
  IF THREADINSTRUMENT THEN LogCall(t, event, FALSE)
  ELSE /\ pc[t] = "idle"
       /\ CommonI < MaxLogs
       /\ CommonI' = CommonI + 1
       /\ UNCHANGED <<nbegin, nend>>
       /\ BuildFrame

\* what a call by name leaves alone when the macro is defined
NamedFrame ==
  UNCHANGED <<now, pc, op, newp, pcMain, allActivity, readers_, writer_,
              printVars, auxVars, LogLimit, Locked_Log, out>>

\* getEventNumber(name) run with no other thread in registerEvent
Interned(t, name) ==
  /\ eventNames_' = WriteSection(eventNames_, CString(name, t)).names
  /\ returned' = returned
       \cup {<<name, WriteSection(eventNames_, CString(name, t)).num>>}
  /\ ninterns' = ninterns + 1

\* begin_activity_inner / end_activity_inner (o) run with no other thread
\* in the registry
Profiled(t, o) ==
  LET g == GetThreadRawData(GlobalEventMap, NProfiledThreads, t)
      r == InnerBody(g.list, g.it, o, now)
  IN  /\ GlobalEventMap' = r.list
      /\ NProfiledThreads' = g.n
      /\ aborted' = ~r.ok
      /\ IF r.ok THEN Returned(t, o) ELSE UNCHANGED <<nbegin, nend>>

\* beginActivity(const char *activity)
ApiBeginActivityName(t, name) ==
  LET c == WriteSection(eventNames_, CString(name, t)).num
  IN  /\ ~aborted
      /\ Quiescent
      /\ nbegin[t][c] = nend[t][c]
      /\ BeginsIssued < MaxBegins
      /\ IF THREADINSTRUMENT
         THEN /\ Interned(t, name)
              /\ Profiled(t, [kind |-> "begin", activity |-> c, t |-> Epoch])
              /\ UNCHANGED <<Log, CommonI>>
              /\ NamedFrame
         ELSE /\ nbegin' = [nbegin EXCEPT ![t][c] = @ + 1]
              /\ UNCHANGED <<nend, CommonI>>
              /\ BuildFrame

\* endActivity(const char *activity)
ApiEndActivityName(t, name) ==
  LET c == WriteSection(eventNames_, CString(name, t)).num
  IN  /\ ~aborted
      /\ Quiescent
      /\ nbegin[t][c] > nend[t][c]
      /\ IF THREADINSTRUMENT
         THEN /\ Interned(t, name)
              /\ Profiled(t, [kind |-> "end", activity |-> c, t |-> now])
              /\ UNCHANGED <<Log, CommonI>>
              /\ NamedFrame
         ELSE /\ nend' = [nend EXCEPT ![t][c] = @ + 1]
              /\ UNCHANGED <<nbegin, CommonI>>
              /\ BuildFrame

\* log(const char *event, int data, bool is_timed) with data = CommonI++
ApiLogName(t, name) ==
  LET c == WriteSection(eventNames_, CString(name, t)).num
  IN  /\ ~aborted
      /\ Quiescent
      /\ CommonI < MaxLogs
      /\ CommonI' = CommonI + 1
      /\ IF THREADINSTRUMENT
         THEN /\ Interned(t, name)
              /\ Log' = IF Locked_Log THEN Log
                        ELSE PushCas(PushLoad(
                               NodeAlloc(Log,
                                         LogEvent(t, Epoch, c, CommonI)),
                               NewNode(Log)), NewNode(Log))
              /\ UNCHANGED <<GlobalEventMap, NProfiledThreads, aborted,
                             nbegin, nend>>
              /\ NamedFrame
         ELSE /\ UNCHANGED <<nbegin, nend>>
              /\ BuildFrame

\* the client, compiled either way, calls the instrumentation functions
NextBuild ==
  \/ Tick
  \/ \E c \in Codes : ApiBeginActivity(MainThread, c)
  \/ \E c \in Codes : ApiEndActivity(MainThread, c)
  \/ \E c \in Codes : ApiLog(MainThread, c)
  \/ \E name \in EventNames : ApiBeginActivityName(MainThread, name)
  \/ \E name \in EventNames : ApiEndActivityName(MainThread, name)
  \/ \E name \in EventNames : ApiLogName(MainThread, name)
  \/ RegFetchAdd(MainThread)
  \/ RegPushLoad(MainThread)
  \/ RegPushCas(MainThread)
  \/ RegFind(MainThread)
  \/ LogPushCas(MainThread)

SpecBuild == InitBuild /\ [][NextBuild]_vars

(***************************************************************************)
(* Clients that call beginActivity / endActivity with no regard to what is *)
(* running, and clearAllActivity between calls. A failed assert aborts.    *)
(***************************************************************************)
MaxCalls == 4

\* clearAllActivity: clear() on the map of every entry of the registry
RECURSIVE ClearFrom(_, _)
ClearFrom(L, p) ==
  IF p = Null THEN L
  ELSE ClearFrom([L EXCEPT !.item[p].int2EventDataMap_ = <<>>], L.next[p])

clearAllActivityDropsRegistry(L) == EmptyList

clearAllActivity(L) == ClearFrom(L, L.head)

MisuseFrame ==
  UNCHANGED <<now, NProfiledThreads, newp, pcMain, allActivity, nameVars,
              logVars, printVars, mynums, sigVars, THREADINSTRUMENT, buf,
              gotName, proc>>

\* beginActivity(c) whatever the state of c
BeginAnyTime(t, c) ==
  /\ ~aborted /\ pcMain = "run"
  /\ pc[t] = "idle"
  /\ call.seq < MaxCalls
  /\ call' = [seq |-> call.seq + 1, thread |-> t, kind |-> "begin",
              activity |-> c]
  /\ CallProfiling(t, [kind |-> "begin", activity |-> c, t |-> Epoch])
  /\ MisuseFrame

\* endActivity(c) whatever the state of c
EndAnyTime(t, c) ==
  /\ ~aborted /\ pcMain = "run"
  /\ pc[t] = "idle"
  /\ call.seq < MaxCalls
  /\ call' = [seq |-> call.seq + 1, thread |-> t, kind |-> "end",
              activity |-> c]
  /\ CallProfiling(t, [kind |-> "end", activity |-> c, t |-> now])
  /\ MisuseFrame

\* clearAllActivity() while no thread is inside a profiling call
ClearAllActivity ==
  /\ ~aborted /\ pcMain = "run"
  /\ Quiescent
  /\ GlobalEventMap' = clearAllActivity(GlobalEventMap)
  /\ UNCHANGED <<aborted, pc, op, nbegin, nend, call>>
  /\ MisuseFrame

NextMisuse ==
  \/ \E t \in Threads, c \in Codes : BeginAnyTime(t, c)
  \/ \E t \in Threads, c \in Codes : EndAnyTime(t, c)
  \/ \E t \in Threads : RegFetchAdd(t)
  \/ \E t \in Threads : RegPushLoad(t)
  \/ \E t \in Threads : RegPushCas(t)
  \/ \E t \in Threads : RegFind(t)
  \/ ClearAllActivity

SpecMisuse == Init /\ [][NextMisuse]_vars

(***************************************************************************)
(* Clients that profile by name on every thread and log by name on the     *)
(* main thread, one call at a time, with clearAllActivity between calls.   *)
(***************************************************************************)
NextClear ==
  \/ \E t \in Threads, name \in EventNames : ApiBeginActivityName(t, name)
  \/ \E t \in Threads, name \in EventNames : ApiEndActivityName(t, name)
  \/ \E name \in EventNames : ApiLogName(MainThread, name)
  \/ ClearAllActivity

SpecClear == Init /\ [][NextClear]_vars

(***************************************************************************)
(* Clients that nest the codes as f() of tests/bench.cpp does: code c + 1  *)
(* begins only while code c is running on the thread and ends before it.   *)
(***************************************************************************)
NestedBegin(t, c) ==
  /\ (c - 1) \in Codes => nbegin[t][c - 1] > nend[t][c - 1]
  /\ BeginActivity(t, c)

NestedEnd(t, c) ==
  /\ (c + 1) \in Codes => nbegin[t][c + 1] = nend[t][c + 1]
  /\ EndActivity(t, c)

NextNest ==
  \/ Tick
  \/ \E t \in Threads, c \in Codes : NestedBegin(t, c)
  \/ \E t \in Threads, c \in Codes : NestedEnd(t, c)
  \/ \E t \in Threads : RegFetchAdd(t)
  \/ \E t \in Threads : RegPushLoad(t)
  \/ \E t \in Threads : RegPushCas(t)
  \/ \E t \in Threads : RegFind(t)

SpecNest == Init /\ [][NextNest]_vars

(***************************************************************************)
(* One thread logs with and without a time stamp while the clock runs, and *)
(* dumps the log. The client logs SPRINTF_ACT timed and RUN_ACT untimed.   *)
(***************************************************************************)
\* log(SPRINTF_ACT, CommonI++, true)
TimedLog(t) == LogCall(t, SPRINTF_ACT, TRUE)

\* log(RUN_ACT, CommonI++, false)
UntimedLog(t) == LogCall(t, RUN_ACT, FALSE)

NextTimed ==
  \/ Tick
  \/ TimedLog(MainThread)
  \/ UntimedLog(MainThread)
  \/ LogPushCas(MainThread)
  \/ DumpLog(MainThread)
  \/ DumpPop(MainThread)
  \/ DumpReturn(MainThread)
  \/ DumpResume(MainThread)

SpecTimed == Init /\ [][NextTimed]_vars

(***************************************************************************)
(* dumpLog(filename, mode): the file is opened and, when it is open, the   *)
(* log is dumped to it; otherwise the process exits.                       *)
(***************************************************************************)
\* the names the client passes to dumpLog
Filenames == {"tilog.txt", "/nodir/tilog.txt"}

\* myfile.is_open() after std::ofstream myfile(filename.c_str(), mode)
is_open(filename) == filename \in proc.openable

DumpLogFileIgnoresFailure(d, filename) == DumpLog(d)

DumpLogFile(d, filename) ==
  IF is_open(filename) THEN DumpLog(d)
  ELSE /\ ~aborted
       /\ Quiescent
       /\ proc' = [proc EXCEPT
                     !.cerr = Append(@, <<"Unable to open file ", filename>>),
                     !.status = "EXIT_FAILURE"]
       /\ aborted' = TRUE
       /\ UNCHANGED <<now, GlobalEventMap, NProfiledThreads, pc, op, newp,
                      nbegin, nend, pcMain, allActivity, nameVars, logVars,
                      printVars, mynums, sigVars, THREADINSTRUMENT, call,
                      buf, gotName>>

\* the environment: directories and permissions change, which decides what
\* the next std::ofstream can open
SetOpenable(files) ==
  /\ ~aborted
  /\ files # proc.openable
  /\ proc' = [proc EXCEPT !.openable = files]
  /\ UNCHANGED <<now, GlobalEventMap, NProfiledThreads, aborted, pc, op, newp,
                 nbegin, nend, pcMain, allActivity, nameVars, logVars,
                 printVars, mynums, sigVars, THREADINSTRUMENT, call, buf,
                 gotName>>

NextFile ==
  \/ \E t \in Threads : LogCall(t, RUN_ACT, FALSE)
  \/ \E t \in Threads : LogPushCas(t)
  \/ \E filename \in Filenames : DumpLogFile(MainThread, filename)
  \/ \E files \in SUBSET Filenames : SetOpenable(files)
  \/ DumpPop(MainThread)
  \/ DumpReturn(MainThread)
  \/ DumpResume(MainThread)

SpecFile == Init /\ [][NextFile]_vars

(***************************************************************************)
(* getEventName. SafeEventCollector::name scans eventNames_ and returns    *)
(* the key pointer of the pair that holds the code, the pointer that was   *)
(* passed when the name was registered: the characters are not copied.     *)
(***************************************************************************)
MaxLookups == 2

NullName == CString("", Null)

\* pairs.second == event: the int code and the int argument of getEventName
\* are both converted to unsigned, which is one-to-one on the ints, so a
\* negative argument equals no code
SameUnsigned(second, event) == second = event

nameAlwaysFirst(names, event) ==
  IF names = {} THEN NullName ELSE (CHOOSE e \in names : e.second = 0).first

\* the for loop of name(): codes are unique, so at most one pair matches
name(names, event) ==
  LET hits == {e \in names : SameUnsigned(e.second, event)}
  IN  IF hits = {} THEN NullName ELSE (CHOOSE e \in hits : TRUE).first

\* the values a client passes to getEventName
LookupCodes == -1 .. Cardinality(EventNames)

LookupFrame ==
  UNCHANGED <<now, GlobalEventMap, NProfiledThreads, aborted, newp, nbegin,
              nend, pcMain, allActivity, logVars, printVars, mynums, sigVars,
              THREADINSTRUMENT, call, proc>>

\* getEventName(event) starts the scan; no lock is taken
NameScan(t, event) ==
  /\ ~aborted
  /\ pc[t] = "idle"
  /\ gotName.seq < MaxLookups
  /\ pc' = [pc EXCEPT ![t] = "n_scan"]
  /\ op' = [op EXCEPT ![t] = [kind |-> "name", event |-> event,
                              seen |-> eventNames_]]
  /\ UNCHANGED <<nameVars, buf, gotName>>
  /\ LookupFrame

\* the scan ends and the client reads the string it got. A scan that ran
\* while a writer inserted read the map during its modification: it may
\* return any key or nullptr
NameReturn(t) ==
  /\ pc[t] = "n_scan"
  /\ \E p \in IF eventNames_ = op[t].seen
              THEN {name(eventNames_, op[t].event)}
              ELSE {NullName} \cup {e.first : e \in eventNames_} :
       gotName' = [seq |-> gotName.seq + 1, event |-> op[t].event,
                   name |-> p, chars |-> Chars(p)]
  /\ pc' = [pc EXCEPT ![t] = "idle"]
  /\ op' = [op EXCEPT ![t] = NoOp]
  /\ UNCHANGED <<nameVars, buf>>
  /\ LookupFrame

\* no key of eventNames_ points to characters that changed since the insert
KeysUnmodified == \A e \in eventNames_ : Chars(e.first) = e.first.text

\* getEventNumber(p) run with no other thread in registerEvent
InternPointer(t, p) ==
  /\ ~aborted
  /\ Quiescent
  /\ ninterns < MaxInterns
  /\ KeysUnmodified
  /\ eventNames_' = WriteSection(eventNames_, p).names
  /\ returned' = returned \cup {<<Chars(p), WriteSection(eventNames_, p).num>>}
  /\ ninterns' = ninterns + 1
  /\ UNCHANGED <<pc, op, readers_, writer_, buf, gotName>>
  /\ LookupFrame

\* the client passes a string literal
InternLiteral(t, text) == InternPointer(t, CString(text, t))

\* the client passes its own buffer
InternBuffer(t) == InternPointer(t, CString(buf, BufAddr))

\* the client writes other characters into its buffer
WriteBuffer(text) ==
  /\ ~aborted
  /\ Quiescent
  /\ text # buf
  /\ buf' = text
  /\ UNCHANGED <<pc, op, nameVars, gotName>>
  /\ LookupFrame

NextLookup ==
  \/ \E text \in EventNames : InternLiteral(MainThread, text)
  \/ InternBuffer(MainThread)
  \/ \E text \in EventNames : WriteBuffer(text)
  \/ \E event \in LookupCodes : NameScan(MainThread, event)
  \/ NameReturn(MainThread)

SpecLookup == Init /\ [][NextLookup]_vars

(***************************************************************************)
(* What a thread's profile holds: the map of the registry entry find       *)
(* returns for the thread, and EventData() for a code it has no data for.  *)
(***************************************************************************)
Registered(t) == find(GlobalEventMap, t) # Null

Profile(t) ==
  IF Registered(t)
  THEN GlobalEventMap.item[find(GlobalEventMap, t)].int2EventDataMap_
  ELSE <<>>

Data(t, c) == IF c \in DOMAIN Profile(t) THEN Profile(t)[c] ELSE EventData0

(***************************************************************************)
(* C1: on every thread and for every code, beginActivity(code) sets        *)
(* currentlyRunning, raises invocations by exactly 1 (from the zero counts *)
(* of a fresh EventData on the first begin) and leaves time alone; the     *)
(* endActivity(code) that follows clears currentlyRunning, leaves          *)
(* invocations alone and raises time by the clock difference since the     *)
(* begin, which is not negative; nothing else changes the EventData in     *)
(* between.                                                                *)
(***************************************************************************)
C1_BeginThenEnd ==
  [][\A t \in Threads, c \in Codes :
       LET d == Data(t, c)
           e == Data(t, c)'
       IN  /\ (~d.currentlyRunning /\ e.currentlyRunning)
                => /\ e.invocations = d.invocations + 1
                   /\ e.time = d.time
                   /\ e.lastInvocation = now
           /\ (d.currentlyRunning /\ ~e.currentlyRunning)
                => /\ e.invocations = d.invocations
                   /\ now >= d.lastInvocation
                   /\ e.time = d.time + (now - d.lastInvocation)
           /\ (d.currentlyRunning = e.currentlyRunning) => e = d]_vars

\* a begin/end pair that took one tick has completed
C1_Witness ==
  \E t \in Threads, c \in Codes :
    /\ nend[t][c] = 1
    /\ Data(t, c).invocations = 1
    /\ Data(t, c).time = 1
    /\ ~Data(t, c).currentlyRunning

(***************************************************************************)
(* C2: under every interleaving of threads that profile the same codes, a  *)
(* thread's EventData changes only in steps of that thread's own calls,    *)
(* its invocations is the number of begins the thread issued, and it is    *)
(* running exactly between the thread's own begin and end; so it is not    *)
(* running once the thread has ended what it began.                        *)
(***************************************************************************)
C2_OwnCounts ==
  \A t \in Threads, c \in Codes :
    /\ Data(t, c).invocations = nbegin[t][c]
    /\ Data(t, c).currentlyRunning <=> (nbegin[t][c] > nend[t][c])

C2_OwnSteps ==
  \A t \in Threads :
    (pc'[t] = pc[t] /\ nbegin'[t] = nbegin[t] /\ nend'[t] = nend[t])
      => Profile(t)' = Profile(t)

C2_NoInterference == []C2_OwnCounts /\ [][C2_OwnSteps]_vars

\* two threads have each begun and ended the same code
C2_Witness ==
  \E c \in Codes :
    /\ \A t \in {1, 2} : nbegin[t][c] = 1 /\ nend[t][c] = 1
    /\ Quiescent

(***************************************************************************)
(* C3: getAllActivity(), called while no thread is inside a profiling      *)
(* call, fails no assertion and returns exactly the codes present in some  *)
(* registered thread's profile, each with the sum of the invocations, the  *)
(* sum of the times and the OR of currentlyRunning over the threads.       *)
(***************************************************************************)
RegisteredThreads == {t \in Threads : Registered(t)}

C3_Aggregate ==
  pcMain = "report" =>
    /\ ~aborted
    /\ DOMAIN allActivity = UNION {DOMAIN Profile(t) : t \in RegisteredThreads}
    /\ \A c \in DOMAIN allActivity :
         /\ allActivity[c].invocations
              = SumOver(RegisteredThreads,
                        [t \in Threads |-> Data(t, c).invocations])
         /\ allActivity[c].time
              = SumOver(RegisteredThreads, [t \in Threads |-> Data(t, c).time])
         /\ allActivity[c].currentlyRunning
              <=> \E t \in RegisteredThreads : Data(t, c).currentlyRunning

\* the report adds up two threads, one of them still running the code
C3_Witness ==
  /\ pcMain = "report"
  /\ \E c \in Codes :
       /\ c \in DOMAIN allActivity
       /\ allActivity[c].invocations = 2
       /\ allActivity[c].time > 0
       /\ allActivity[c].currentlyRunning
       /\ \A t \in {1, 2} : c \in DOMAIN Profile(t)

(***************************************************************************)
(* C4: getEventNumber returns the same code for equal strings on every     *)
(* call and from every thread, also when threads intern the same new name  *)
(* at the same time: the registry then holds one entry for the name, and   *)
(* every code returned for the name is the code of that entry.             *)
(***************************************************************************)
C4_SameNameSameCode ==
  /\ \A r1 \in returned, r2 \in returned : r1[1] = r2[1] => r1[2] = r2[2]
  /\ \A text \in EventNames :
       Cardinality({e \in eventNames_ : e.first.text = text}) <= 1
  /\ \A r \in returned :
       \E e \in eventNames_ : e.first.text = r[1] /\ e.second = r[2]

\* a thread is in the write path for a name whose code another thread's
\* call, made from its own copy of the string, has already returned
C4_Witness ==
  \E t \in Threads, r \in returned :
    /\ pc[t] = "w_exit"
    /\ op[t].name.text = r[1]
    /\ op[t].num = r[2]
    /\ \E e \in eventNames_ : e.first.text = r[1] /\ e.first.addr # t

(***************************************************************************)
(* C5: under every interleaving of getEventNumber calls, names that differ *)
(* as strings have different codes, the codes of the n names interned so   *)
(* far are exactly 0..n-1, and an entry of the registry, once made, is     *)
(* never changed or removed.                                               *)
(***************************************************************************)
C5_DenseDistinct ==
  /\ {e.second : e \in eventNames_} = 0..(Cardinality(eventNames_) - 1)
  /\ \A e1 \in eventNames_, e2 \in eventNames_ :
       (e1.first.text # e2.first.text) <=> (e1.second # e2.second)
  /\ \A r1 \in returned, r2 \in returned : r1[1] # r2[1] => r1[2] # r2[2]

C5_CodesDenseStable ==
  []C5_DenseDistinct /\ [][eventNames_ \subseteq eventNames_']_vars

\* two names interned and their codes returned
C5_Witness ==
  /\ Cardinality(eventNames_) = 2
  /\ Cardinality({r[1] : r \in returned}) = 2

(***************************************************************************)
(* The log and its dump.                                                   *)
(***************************************************************************)
\* the payload a printed line shows: the last argument of its printer
Ticket(line) == line.text[Len(line.text)]

\* the lines the dump in progress has printed so far
DumpLines == SubSeq(out, op[MainThread].from + 1, Len(out))

\* the entries that were in the log when the dump was called, oldest first
DumpLogged == op[MainThread].logged

Dumped == pc[MainThread] = "dumped"

\* C6: with no limit configured, a dump that returns has printed exactly one
\* line per entry logged since the previous dump, and the lines of each
\* thread are in the order in which that thread logged them; for a single
\* logging thread that is N lines in the order of the N calls.
C6_DumpInOrder ==
  (Dumped /\ LogLimit = 0) =>
    /\ Len(DumpLines) = CommonI - op[MainThread].from
    /\ {Ticket(DumpLines[i]) : i \in 1..Len(DumpLines)}
         = op[MainThread].from .. (CommonI - 1)
    /\ \A i, j \in 1..Len(DumpLines) :
         (i < j /\ DumpLines[i].thread_num = DumpLines[j].thread_num)
           => Ticket(DumpLines[i]) < Ticket(DumpLines[j])
    /\ \A i \in 1..Len(DumpLines) : ~DumpLines[i].timed

C6_Witness ==
  /\ Dumped
  /\ LogLimit = 0
  /\ Len(DumpLines) >= 2
  /\ \A i \in 1..Len(DumpLines) : DumpLines[i].thread_num = 0

\* C7: with a limit K > 0 and N > K entries logged by one thread, the K most
\* recent entries are never discarded unprinted, and a dump that returns has
\* printed exactly those K, in the order logged, and left the log empty.
C7_LimitKeepsMostRecent ==
  LET K == LogLimit
      N == Len(DumpLogged)
  IN  (/\ pc[MainThread] \in DumpPcs
       /\ K > 0
       /\ N > K
       /\ \A i \in 1..N : DumpLogged[i].id_ = DumpLogged[1].id_)
      =>
      /\ \A i \in (N - K + 1)..N :
           \/ \E q \in 1..Len(Items(Log)) : Items(Log)[q] = DumpLogged[i]
           \/ \E q \in 1..Len(DumpLines) :
                Ticket(DumpLines[q]) = DumpLogged[i].data_
      /\ Dumped =>
           /\ Len(DumpLines) = K
           /\ \A q \in 1..K :
                Ticket(DumpLines[q]) = DumpLogged[N - K + q].data_
           /\ Log = EmptyList

\* C8: when dumpLog returns the log is empty and its nodes are freed, a dump
\* called on the log a dump has emptied prints nothing, and no entry is
\* printed twice, by the same dump or by two dumps.
C8_Destructive ==
  /\ Dumped => Log = EmptyList
  /\ (Dumped /\ DumpLogged = <<>>) => DumpLines = <<>>
  /\ \A i, j \in 1..Len(out) : Ticket(out[i]) = Ticket(out[j]) => i = j

C8_Witness ==
  /\ Dumped
  /\ DumpLogged = <<>>
  /\ CommonI >= 2
  /\ Len(out) = CommonI

\* C10: while no dump runs, every log call that has returned has exactly one
\* node in the log (or its line was printed by an earlier dump) and a call
\* still in its CAS loop has none; the dump that follows prints each entry
\* that was in the log exactly once.
C10_EachEntryOnce ==
  LET held == Items(Log)
      pending == {t \in Threads : pc[t] = "log_cas"}
  IN  /\ NoDump =>
           /\ Len(held) + Len(out) + Cardinality(pending) = CommonI
           /\ \A i, j \in 1..Len(held) :
                held[i].data_ = held[j].data_ => i = j
           /\ {held[i].data_ : i \in 1..Len(held)}
                \cup {Ticket(out[i]) : i \in 1..Len(out)}
                \cup {op[t].data : t \in pending}
                = 0..(CommonI - 1)
      /\ Dumped =>
           /\ Len(DumpLines) = Len(DumpLogged)
           /\ \A i \in 1..Len(DumpLogged) :
                Cardinality({q \in 1..Len(DumpLines) :
                               Ticket(DumpLines[q]) = DumpLogged[i].data_}) = 1

\* two threads' calls overlapped (the later ticket was pushed first, so the
\* other thread's CAS failed and was retried) and the dump has returned
C10_Witness ==
  /\ Dumped
  /\ \E i, j \in 1..Len(DumpLogged) :
       /\ i < j
       /\ DumpLogged[i].id_ # DumpLogged[j].id_
       /\ DumpLogged[i].data_ > DumpLogged[j].data_

\* C9: each entry dumpLog prints is rendered by the printer last registered
\* for its code, whatever is registered for other codes, and by the generic
\* printer when none was registered for its code or the last call for it
\* passed nullptr.
C9_PrinterChoice ==
  [][Len(out') = Len(out) + 1 =>
       LET l == Log.item[Log.head]
       IN  out'[Len(out')].text =
             IF lastReg[l.event_id_] # nullptr
             THEN <<lastReg[l.event_id_], l.data_>>
             ELSE <<AllLogPrinter, l.event_id_, l.data_>>]_vars

\* a code whose printer was removed is printed by the generic printer after
\* a line printed by a specific printer, another code keeping its printer
C9_Witness ==
  \E X, Y \in Codes :
    /\ X # Y
    /\ X \notin DOMAIN LogPrinters
    /\ Y \in DOMAIN LogPrinters
    /\ \E i, j \in 1..Len(out) :
         /\ i < j
         /\ out[i].text[1] \in LogPrinterFunctions
         /\ Len(out[j].text) = 3
         /\ out[j].text[1] = "generic_printer"
         /\ out[j].text[2] = X

(***************************************************************************)
(* The thread registry.                                                    *)
(***************************************************************************)
\* the registry entries reachable from the head of the map
RegistryEntries ==
  {GlobalEventMap.item[Chain(GlobalEventMap)[i]] :
     i \in 1..Len(Chain(GlobalEventMap))}

\* a thread is between the first find of GetThreadRawData and its return
RegistrationInFlight ==
  \E t \in Threads : pc[t] \in {"k_reg", "k_load", "k_cas", "k_refind"}

\* C11: in every reachable state the registry holds at most one entry for
\* a thread id, whether the thread looked itself up or dumpLog looked it up
\* for an entry the thread logged.
C11_OneEntryPerThread ==
  \A i, j \in 1..Len(Chain(GlobalEventMap)) :
    GlobalEventMap.item[Chain(GlobalEventMap)[i]].first
      = GlobalEventMap.item[Chain(GlobalEventMap)[j]].first
    => i = j

\* C12: every call of getMyThreadNumber by one thread returns the same
\* value.
C12_StableNumber ==
  \A t \in Threads : Cardinality(mynums[t]) <= 1

\* C13: the indices of the registry entries are pairwise distinct, and when
\* no registration is in flight they are 0..n-1 with n the size of the
\* registry (nThreadsWithActivity()) and the value of NProfiledThreads.
C13_DenseIndices ==
  /\ \A i, j \in 1..Len(Chain(GlobalEventMap)) :
       GlobalEventMap.item[Chain(GlobalEventMap)[i]].id_
         = GlobalEventMap.item[Chain(GlobalEventMap)[j]].id_
       => i = j
  /\ ~RegistrationInFlight =>
       /\ unsafe_size(GlobalEventMap) = NProfiledThreads
       /\ {e.id_ : e \in RegistryEntries} = 0..(NProfiledThreads - 1)

\* several entries, registered by a thread for itself and by a dump, in an
\* order other than that of the thread ids, and no registration in flight
C13_Witness ==
  /\ ~RegistrationInFlight
  /\ NProfiledThreads >= 2
  /\ \E e1, e2 \in RegistryEntries :
       e1.first < e2.first /\ e1.id_ > e2.id_
  /\ \E t \in Threads : mynums[t] # {}
  /\ out # <<>>

(***************************************************************************)
(* Logging while the log is dumped.                                        *)
(***************************************************************************)
\* the payloads of the entries reachable from the head of the log
HeldTickets == [i \in 1..Len(Walk(Log)) |-> Log.item[Walk(Log)[i]].data_]

\* the payloads of the log calls that have not returned yet
PendingTickets == {op[t].data : t \in {u \in Threads : pc[u] = "log_cas"}}

\* C14: when a dumpLog during which other threads logged returns, every
\* entry whose log call has returned is either printed or still in the log,
\* exactly once; and the dump never reaches a freed node or a cycle.
C14_NothingLost ==
  /\ pc[MainThread] # "x_ub"
  /\ pc[MainThread] = "x_dumped" =>
       \A k \in (0..(CommonI - 1)) \ PendingTickets :
         Cardinality({i \in 1..Len(HeldTickets) : HeldTickets[i] = k})
           + Cardinality({i \in 1..Len(out) : Ticket(out[i]) = k}) = 1

\* C15: in the lines a dumpLog prints, the entries of one thread are in the
\* order in which that thread logged them (increasing payload tickets).
C15_PerThreadOrder ==
  op[MainThread].kind = "dump" =>
    \A i, j \in 1..Len(DumpLines) :
      (i < j /\ DumpLines[i].thread_num = DumpLines[j].thread_num)
        => Ticket(DumpLines[i]) < Ticket(DumpLines[j])

(***************************************************************************)
(* The signal handler.                                                     *)
(***************************************************************************)
\* C16: no inspector is registered at process start; each SIGUSR1 delivery
\* calls the inspector passed to the latest registerInspector call exactly
\* once, without dumping, when that call passed one, and otherwise calls no
\* inspector and dumps the whole log exactly once.
C16_HandlerDispatch ==
  /\ Inspector = nullptr
  /\ [][nsignals' = nsignals + 1 =>
          IF lastInspector # nullptr
          THEN /\ inspections' = Append(inspections, lastInspector)
               /\ sigdumps' = sigdumps
               /\ UNCHANGED <<Log, out>>
          ELSE /\ inspections' = inspections
               /\ sigdumps' = sigdumps + 1
               /\ Log' = EmptyList
               /\ Len(out') = Len(out) + unsafe_size(Log)]_vars

\* a delivery has called an inspector and a later one has dumped entries
C16_Witness ==
  /\ nsignals = 2
  /\ inspections = <<"other_inspector">>
  /\ sigdumps = 1
  /\ out # <<>>
  /\ Inspector = nullptr

(***************************************************************************)
(* The build without THREADINSTRUMENT.                                     *)
(***************************************************************************)
\* C17: in a client compiled without THREADINSTRUMENT, beginActivity,
\* endActivity and log, by code and by name, change nothing in the library:
\* no thread is registered (so there is no activity map that could hold an
\* EventData), no event name is interned and the log stays empty.
C17_NoOpBuild ==
  /\ [](~THREADINSTRUMENT =>
          /\ GlobalEventMap = EmptyList
          /\ NProfiledThreads = 0
          /\ getAllActivity(GlobalEventMap).m = <<>>
          /\ eventNames_ = {}
          /\ Log = EmptyList
          /\ ~aborted)
  /\ [][~THREADINSTRUMENT =>
          UNCHANGED <<GlobalEventMap, NProfiledThreads, eventNames_,
                      readers_, writer_, Log, out, pc, aborted>>]_vars

\* the uninstrumented client has begun and ended activities and logged
C17_Witness ==
  /\ ~THREADINSTRUMENT
  /\ \E c \in Codes : nbegin[MainThread][c] >= 1 /\ nend[MainThread][c] >= 1
  /\ \E c \in Codes : nbegin[MainThread][c] > nend[MainThread][c]
  /\ CommonI >= 2

\* code c is running on thread t, as the thread's own EventData records it
Running(t, c) == Data(t, c).currentlyRunning

\* the step in which the body of thread t's call kind(c) runs: the call
\* itself when the thread is registered, the find after the registration
\* otherwise
BodyStep(t, kind, c) ==
  \/ /\ call'.seq = call.seq + 1
     /\ call'.thread = t /\ call'.kind = kind /\ call'.activity = c
     /\ pc'[t] = "idle"
  \/ /\ pc[t] = "refind" /\ pc'[t] = "idle"
     /\ op[t].kind = kind /\ op[t].activity = c

(***************************************************************************)
(* C18: beginActivity(code) fails its assertion exactly when the calling   *)
(* thread's EventData for code has currentlyRunning set, that is when the  *)
(* thread began code and neither ended it nor had it removed by            *)
(* clearAllActivity since; code running on other threads only does not     *)
(* make the call fail.                                                     *)
(***************************************************************************)
C18_ReentrantBeginFails ==
  [][\A t \in Threads, c \in Codes :
       BodyStep(t, "begin", c) => (aborted' <=> Running(t, c))]_vars

\* C18 with "running" read as no endActivity(code) since the thread's last
\* begin of code: every such begin fails the assertion
C18_BeginWithoutEndFails ==
  [][\A t \in Threads, c \in Codes :
       (BodyStep(t, "begin", c) /\ nbegin[t][c] > nend[t][c])
         => aborted']_vars

C18_Witness ==
  /\ aborted
  /\ call.kind = "begin"
  /\ Running(call.thread, call.activity)
  /\ \E u \in Threads \ {call.thread} :
       Running(u, call.activity) /\ nbegin[u][call.activity] = 1

(***************************************************************************)
(* C19: endActivity(code) fails an assertion, and leaves the EventData of  *)
(* every thread as they were, when the calling thread holds no EventData   *)
(* for code (it never began it, or clearAllActivity removed it after the   *)
(* begin) or when code is not running on the thread (an end after the end  *)
(* that matched the begin); an end of a running code fails no assertion.   *)
(***************************************************************************)
C19_UnmatchedEndFails ==
  [][\A t \in Threads, c \in Codes :
       BodyStep(t, "end", c) =>
         IF Running(t, c) THEN ~aborted'
         ELSE /\ aborted'
              /\ \A u \in Threads :
                   /\ Registered(u) => Registered(u)'
                   /\ Profile(u)' = Profile(u)]_vars

C19_Witness ==
  /\ aborted
  /\ call.kind = "end"
  /\ nbegin[call.thread][call.activity] > nend[call.thread][call.activity]
  /\ call.activity \notin DOMAIN Profile(call.thread)
  /\ \E u \in Threads \ {call.thread} : \E c \in Codes :
       nbegin[u][c] = 1 /\ Registered(u) /\ c \notin DOMAIN Profile(u)

(***************************************************************************)
(* C20: when a thread nests different codes (begin(A), begin(B), end(B),   *)
(* end(A)) no assertion fails, each code has its own invocations and       *)
(* currentlyRunning, equal to the begins made for that code and to whether *)
(* that code is open, and once the enclosing code has ended its            *)
(* accumulated time is at least the accumulated time of the nested code.   *)
(***************************************************************************)
C20_NestedCodes ==
  /\ ~aborted
  /\ \A t \in Threads, c \in Codes :
       /\ Data(t, c).invocations = nbegin[t][c]
       /\ Data(t, c).currentlyRunning = (nbegin[t][c] > nend[t][c])
       /\ ((c + 1) \in Codes /\ nbegin[t][c] = nend[t][c] /\ pc[t] = "idle")
            => Data(t, c).time >= Data(t, c + 1).time

C20_Witness ==
  \E t \in Threads :
    /\ pc[t] = "idle"
    /\ nend[t][RUN_ACT] = 1 /\ nend[t][SPRINTF_ACT] = 1
    /\ Data(t, SPRINTF_ACT).time > 0
    /\ Data(t, RUN_ACT).time >= Data(t, SPRINTF_ACT).time

\* nThreadsWithActivity()
nThreadsWithActivity == unsafe_size(GlobalEventMap)

\* what getMyThreadNumber() returns to thread t when called in this state:
\* the id_ of its entry, or the index a registration now would give it
MyThreadNumber(t) ==
  IF Registered(t) THEN GlobalEventMap.item[find(GlobalEventMap, t)].id_
  ELSE NProfiledThreads

\* a step that removes EventData from a registry entry, which of all the
\* calls only clearAllActivity does
EventDataRemoved ==
  \E p \in DOMAIN GlobalEventMap.item :
    /\ GlobalEventMap.item[p].int2EventDataMap_ # <<>>
    /\ p \in DOMAIN GlobalEventMap'.item
         => GlobalEventMap'.item[p].int2EventDataMap_ = <<>>

(***************************************************************************)
(* C21: clearAllActivity() leaves every entry of the registry with an      *)
(* empty profile map and leaves alone the registry itself (the number of   *)
(* entries nThreadsWithActivity() counts, the number getMyThreadNumber()   *)
(* gives each thread), the codes of the event names and the log.           *)
(***************************************************************************)
C21_ClearKeepsRegistry ==
  [][EventDataRemoved =>
       /\ \A p \in DOMAIN GlobalEventMap'.item :
            GlobalEventMap'.item[p].int2EventDataMap_ = <<>>
       /\ \A t \in Threads : Profile(t)' = <<>>
       /\ nThreadsWithActivity' = nThreadsWithActivity
       /\ \A t \in Threads :
            /\ Registered(t)' = Registered(t)
            /\ MyThreadNumber(t)' = MyThreadNumber(t)
       /\ eventNames_' = eventNames_
       /\ Log' = Log]_vars

C21_Witness ==
  /\ ~aborted
  /\ nThreadsWithActivity = NThreads
  /\ \A t \in Threads :
       Registered(t) /\ Profile(t) = <<>> /\ \E c \in Codes : nbegin[t][c] > 0
  /\ Cardinality(eventNames_) = 2
  /\ unsafe_size(Log) > 0

\* the step in which a getEventName call returns
NameReturned == gotName'.seq = gotName.seq + 1

LoggedThreads ==
  {t \in Threads : pc[t] = "idle"
                   /\ \E i \in 1..Len(Chain(Log)) : Log.item[Chain(Log)[i]].id_ = t}

\* a step of a log call: the call with the start of the push, or a CAS
LogStep ==
  \/ CommonI' = CommonI + 1
  \/ \E t \in Threads : pc[t] = "log_cas" /\ Log' # Log

\* a step of dumpLog that prints a line, and the thread that logged the entry
PrintStep(t) ==
  /\ Len(out') = Len(out) + 1
  /\ \E d \in Threads :
       \/ pc[d] = "render" /\ try_head_pop(Log).ok
                           /\ try_head_pop(Log).val.id_ = t
       \/ pc[d] = "k_refind" /\ op[d].kind = "dump" /\ op[d].key = t

(***************************************************************************)
(* C23: a log call leaves the thread registry and NProfiledThreads as they *)
(* are, so a thread that has only logged is not counted by                 *)
(* nThreadsWithActivity(); the thread is in the registry once dumpLog has  *)
(* printed an entry it logged, the dump having registered it if need be.   *)
(***************************************************************************)
C23_LogRegistersAtDump ==
  [][/\ LogStep => UNCHANGED <<GlobalEventMap, NProfiledThreads>>
     /\ \A t \in Threads : PrintStep(t) => Registered(t)']_vars

\* C23 as a state property: every thread with a returned log call is in
\* the registry
C23_LogRegisters == \A t \in LoggedThreads : Registered(t)

C23_Witness ==
  \E t \in LoggedThreads :
    /\ ~Registered(t)
    /\ nThreadsWithActivity = 1
    /\ \E u \in Threads \ {t} : Registered(u) /\ mynums[u] # {}

(***************************************************************************)
(* C24: every line dumpLog prints carries the dense index of the thread    *)
(* that logged the entry, the value getMyThreadNumber() returns in that    *)
(* thread: whatever getMyThreadNumber() has returned to the thread is the  *)
(* thread_num of the line.                                                 *)
(***************************************************************************)
C24_LineCarriesThreadNumber ==
  [][\A t \in Threads :
       PrintStep(t) =>
         \A n \in mynums[t] : out'[Len(out')].thread_num = n]_vars

\* the step of dumpLog that pops the entry l and prints its line
Printed(l) ==
  /\ Len(out') = Len(out) + 1
  /\ try_head_pop(Log).ok
  /\ l = try_head_pop(Log).val

C26_UnopenableFileExits ==
  /\ [](proc.status = "EXIT_FAILURE" => aborted)
  /\ [][proc'.status # proc.status =>
          /\ proc.status = "running" /\ proc'.status = "EXIT_FAILURE"
          /\ Len(proc'.cerr) = Len(proc.cerr) + 1
          /\ proc'.cerr[Len(proc'.cerr)][1] = "Unable to open file "
          /\ ~is_open(proc'.cerr[Len(proc'.cerr)][2])
          /\ Log' = Log /\ out' = out]_vars
  /\ [][(~aborted /\ aborted') => proc'.status = "EXIT_FAILURE"]_vars
  /\ [][(pc[MainThread] = "idle" /\ pc'[MainThread] \in DumpPcs)
          => proc.openable # {}]_vars

C26_Witness ==
  /\ proc.status = "EXIT_FAILURE"
  /\ aborted
  /\ unsafe_size(Log) > 0
  /\ out # <<>>

\* the threads between reader_enter and reader_exit
InReadSection == {t \in Threads : pc[t] \in {"r_find", "r_exit"}}

\* the threads between writer_enter and writer_exit
InWriteSection == {t \in Threads : pc[t] \in {"w_sec", "w_exit"}}

(***************************************************************************)
(* C27: at most one thread is inside the write section of the lock that    *)
(* guards the name registry, and no thread is inside a read section while  *)
(* a thread is inside the write section.                                   *)
(***************************************************************************)
C27_ReadersWriterExclusion ==
  /\ Cardinality(InWriteSection) <= 1
  /\ InWriteSection # {} => InReadSection = {}

C27_Witness ==
  /\ InWriteSection # {}
  /\ \E t \in Threads : pc[t] \in {"r_dec", "r_spin", "w_xchg"}
  /\ eventNames_ # {}

(***************************************************************************)
(* Termination of dumpLog.  The thread inside dumpLog is runnable at every *)
(* step of its two loops, so the scheduler lets it take its next step:     *)
(* weak fairness on the steps of the dumping thread.                       *)
(***************************************************************************)
DumpStep(d) ==
  \/ DumpTrim(d)
  \/ DumpTrimDone(d)
  \/ DumpPop(d)
  \/ DumpReturn(d)

SpecLogFair == SpecLog /\ WF_vars(DumpStep(MainThread))

\* C28: every call to dumpLog returns, whatever the number of entries in
\* the log and whatever the limit set with logLimit, no thread logging
\* while the dump runs: a thread inside dumpLog eventually leaves it.
C28_DumpLogReturns ==
  (pc[MainThread] \in {"trim", "render"}) ~> (pc[MainThread] = "dumped")

(***************************************************************************)
(* SIGUSR1 delivered to the thread that is inside dumpLog. The handler     *)
(* runs on that thread, between two of its steps, and with no inspector it *)
(* calls dumpLog again on the same Log; when the handler returns the       *)
(* interrupted dumpLog goes on with the locals it had (p of reverse, p of  *)
(* try_head_pop). The client is one thread.                                *)
(***************************************************************************)
\* where the interrupted dumpLog can be when the handler runs
InDumpPcs == {"rv_cut", "rv_store", "x_pop", "x_store"}

\* catch_function run by the thread d, itself inside dumpLog: the nested
\* dumpLog reverses and renders the list it finds from head_. When that
\* list is the half reversed one (its first two nodes point to each other)
\* the loop of the nested reverse() never ends.
SigusrInDump(d) ==
  /\ ~aborted
  /\ pc[d] \in InDumpPcs
  /\ nsignals < MaxSignals
  /\ LogLimit = 0
  /\ nsignals' = nsignals + 1
  /\ LET h == catch_function(Inspector)
         r == RenderAll(reverse(Log), GlobalEventMap, NProfiledThreads, <<>>)
     IN  /\ inspections' = inspections \o h.inspect
         /\ IF ~h.dump
            THEN UNCHANGED <<sigdumps, Log, GlobalEventMap,
                             NProfiledThreads, out, pc>>
            ELSE /\ sigdumps' = sigdumps + 1
                 /\ IF WalkEnd(Log, Log.head, {}) # Null
                    THEN /\ pc' = [pc EXCEPT ![d] = "x_hang"]
                         /\ UNCHANGED <<Log, GlobalEventMap,
                                        NProfiledThreads, out>>
                    ELSE /\ Log' = r.Log
                         /\ GlobalEventMap' = r.G
                         /\ NProfiledThreads' = r.n
                         /\ out' = out \o r.lines
                         /\ UNCHANGED pc
  /\ UNCHANGED <<now, aborted, op, newp, nbegin, nend, pcMain, allActivity,
                 nameVars, printVars, mynums, Inspector, lastInspector,
                 THREADINSTRUMENT, call, buf, gotName, proc, LogLimit,
                 Locked_Log, CommonI>>

\* reverse(): (*head_).next_ = nullptr, head_ being null when a nested dump
\* has emptied the list: a null pointer is dereferenced
RevCutResumed(d) ==
  /\ ~aborted
  /\ pc[d] = "rv_cut"
  /\ IF Log.head # Null THEN RevCut(d)
     ELSE /\ pc' = [pc EXCEPT ![d] = "x_null"]
          /\ UNCHANGED <<GlobalEventMap, NProfiledThreads, op, newp, Log,
                         CommonI, out>>
          /\ RaceFrame

\* try_head_pop after p = head_.load(): val = p->item_; head_ = p->next_;
\* delete p. When a nested dump has deleted the node p, these read freed
\* memory and delete the node a second time
PopStoreResumed(d) ==
  /\ ~aborted
  /\ pc[d] = "x_store"
  /\ IF op[d].p \in DOMAIN Log.next THEN PopStore(d)
     ELSE /\ pc' = [pc EXCEPT ![d] = "x_ub"]
          /\ UNCHANGED <<GlobalEventMap, NProfiledThreads, op, newp, Log,
                         CommonI, out>>
          /\ RaceFrame

\* one thread logs and dumps, and SIGUSR1 reaches it inside dumpLog
NextNested ==
  \/ LogCall(MainThread, RUN_ACT, FALSE)
  \/ LogPushCas(MainThread)
  \/ RevLoop(MainThread)
  \/ RevCutResumed(MainThread)
  \/ RevStore(MainThread)
  \/ PopLoad(MainThread)
  \/ PopStoreResumed(MainThread)
  \/ SigusrInDump(MainThread)

SpecNested == Init /\ [][NextNested]_vars

\* C29: when SIGUSR1 reaches a thread inside dumpLog and no inspector is
\* registered, neither dump reads or deletes a node that was deleted, no
\* entry is printed twice, and when the interrupted dump returns every
\* logged entry has been printed exactly once and every node of the list
\* has been freed.
C29_NestedDumpOnce ==
  (sigdumps > 0 /\ Inspector = nullptr) =>
    /\ pc[MainThread] # "x_ub"
    /\ \A k \in 0..(CommonI - 1) :
         Cardinality({i \in 1..Len(out) : Ticket(out[i]) = k}) <= 1
    /\ pc[MainThread] = "x_dumped" =>
         /\ \A k \in 0..(CommonI - 1) :
              Cardinality({i \in 1..Len(out) : Ticket(out[i]) = k}) = 1
         /\ DOMAIN Log.next = {}

(***************************************************************************)
(* getEventName called while other threads call getEventNumber: the scan   *)
(* of SafeEventCollector::name next to the steps of registerEvent.         *)
(***************************************************************************)
NextScan ==
  \/ NextNames
  \/ \E t \in Threads, event \in LookupCodes : NameScan(t, event)
  \/ \E t \in Threads : NameReturn(t)

SpecScan == Init /\ [][NextScan]_vars

\* C30: while a thread scans the name registry for getEventName, no other
\* thread is inside the write section of registerEvent, where getEventNumber
\* inserts a name.
C30_ScanExcludesWriter ==
  \A t \in Threads :
    pc[t] = "n_scan" => InWriteSection \ {t} = {}

(***************************************************************************)
(* Progress of the spinlock. A thread inside reader_enter, writer_enter or *)
(* a section is runnable and the scheduler keeps running it: weak fairness *)
(* on the steps of each thread inside registerEvent. A spin loop whose     *)
(* condition holds takes no step; the calls are the client's choice and    *)
(* there are MaxInterns of them.                                           *)
(***************************************************************************)
RegisterEventStep(t) ==
  \/ ReaderInc(t)
  \/ ReaderCheck(t)
  \/ ReaderBackOut(t)
  \/ ReaderSpin(t)
  \/ ReaderFind(t)
  \/ ReaderExit(t)
  \/ WriterExchange(t)
  \/ WriterWait(t)
  \/ WriterSection(t)
  \/ WriterExit(t)

SpecNamesFair ==
  SpecNames /\ \A t \in Threads : WF_vars(RegisterEventStep(t))

\* C31: under fair scheduling, with finitely many getEventNumber calls and
\* every section left again, every reader_enter call returns (the thread
\* reaches its read section) and every writer_enter call returns (the
\* thread reaches its write section).
C31_EnterReturns ==
  \A t \in Threads :
    /\ (pc[t] \in {"r_inc", "r_chk", "r_dec", "r_spin"}) ~> (pc[t] = "r_find")
    /\ (pc[t] \in {"w_xchg", "w_wait"}) ~> (pc[t] = "w_sec")

\* a reader is backing out while a writer waits for the reader count to
\* become zero
C31_Witness ==
  \E t, u \in Threads :
    /\ pc[t] = "r_dec"
    /\ pc[u] = "w_wait"
    /\ readers_ > 0

(***************************************************************************)
(* push of a Node with the compare_exchange_weak of the source: a weak     *)
(* compare and exchange may fail although head_ holds the expected value   *)
(* (a spurious failure); it then reloads the same value and the loop tries *)
(* again. op[t].cas keeps the outcome of the thread's latest failed try.   *)
(***************************************************************************)
PushCasNoReload(t) ==
  /\ ~aborted
  /\ pc[t] = "log_cas"
  /\ IF PushCasSucceeds(Log, newp[t])
     THEN /\ Log' = PushCasBlind(Log, newp[t])
          /\ pc' = [pc EXCEPT ![t] = "idle"]
          /\ op' = [op EXCEPT ![t] = NoOp]
          /\ newp' = [newp EXCEPT ![t] = Null]
     ELSE /\ op' = [op EXCEPT ![t] = [kind |-> "log", data |-> op[t].data,
                                      cas |-> "changed"]]
          /\ UNCHANGED <<Log, pc, newp>>
  /\ UNCHANGED <<GlobalEventMap, NProfiledThreads, CommonI, out>>
  /\ RaceFrame

\* one head_.compare_exchange_weak(newp->next_, newp) of the loop of push
PushCasWeak(t) ==
  /\ ~aborted
  /\ pc[t] = "log_cas"
  /\ \/ /\ PushCasSucceeds(Log, newp[t])
        /\ Log' = PushCas(Log, newp[t])
        /\ pc' = [pc EXCEPT ![t] = "idle"]
        /\ op' = [op EXCEPT ![t] = NoOp]
        /\ newp' = [newp EXCEPT ![t] = Null]
     \/ /\ PushCasSucceeds(Log, newp[t])
        /\ op' = [op EXCEPT ![t] = [kind |-> "log", data |-> op[t].data,
                                    cas |-> "spurious"]]
        /\ UNCHANGED <<Log, pc, newp>>
     \/ /\ ~PushCasSucceeds(Log, newp[t])
        /\ Log' = PushCas(Log, newp[t])
        /\ op' = [op EXCEPT ![t] = [kind |-> "log", data |-> op[t].data,
                                    cas |-> "changed"]]
        /\ UNCHANGED <<pc, newp>>
  /\ UNCHANGED <<GlobalEventMap, NProfiledThreads, CommonI, out>>
  /\ RaceFrame

\* threads push entries at the same time
NextPush ==
  \/ \E t \in Threads : LogCallAnyTime(t)
  \/ \E t \in Threads : PushCasWeak(t)

\* every thread inside the loop of push keeps running, and the weak compare
\* and exchange does not fail spuriously for ever
SpecPush ==
  Init /\ [][NextPush]_vars /\ \A t \in Threads : WF_vars(PushCasWeak(t))

\* the step is a compare and exchange of thread t that failed
FailedCas(t) ==
  /\ pc[t] = "log_cas"
  /\ pc' = pc
  /\ op'[t] # op[t] \/ Log'.next[newp[t]] # Log.next[newp[t]]

GetActivity(n) ==
  /\ ~aborted
  /\ call.seq < MaxCalls
  /\ n < unsafe_size(GlobalEventMap)
  /\ aborted' = (getThreadDataByNumber(GlobalEventMap, n) = Null)
  /\ call' = [seq |-> call.seq + 1, thread |-> 0, kind |-> "getActivity",
              activity |-> n]
  /\ UNCHANGED <<now, GlobalEventMap, NProfiledThreads, pc, op, newp, nbegin,
                 nend, pcMain, allActivity, nameVars, logVars, printVars,
                 mynums, sigVars, THREADINSTRUMENT, buf, gotName, proc>>

NextByNumber ==
  \/ \E t \in Threads : GetMyThreadNumber(t)
  \/ \E t \in Threads : KeyRegFetchAdd(t)
  \/ \E t \in Threads : KeyRegPushLoad(t)
  \/ \E t \in Threads : KeyRegPushCas(t)
  \/ \E t \in Threads : MyNumberReturn(t)
  \/ \E n \in 0..(NThreads - 1) : GetActivity(n)

SpecByNumber == Init /\ [][NextByNumber]_vars

\* C33: for every n below nThreadsWithActivity() the registry holds an
\* entry whose index is n, whatever the other threads are doing, so no
\* getActivity(n) call with such an n fails the assert of
\* getThreadDataByNumber.
C33_EntryByNumberExists ==
  call.kind = "getActivity" => ~aborted

\* the step in which thread u takes the index of a new registry entry
TakesIndex(u) == pc[u] = "k_reg" /\ pc'[u] = "k_load"

\* C34: when an index is taken for a thread (op[u].key, registered by the
\* thread u itself or by the thread that dumps an entry it logged), the
\* index is larger than the index of every other thread whose registration
\* has completed, so a thread whose registration completes before another
\* one's begins has the smaller index; and a thread registered before any
\* other thread has called the library gets index 0.
C34_RegistrationOrder ==
  [][\A u \in Threads :
       TakesIndex(u) =>
         /\ \A t \in Threads \ {op[u].key} :
              \A i \in mynums[t] : i < GlobalEventMap'.item[newp'[u]].id_
         /\ NProfiledThreads = 0
              => GlobalEventMap'.item[newp'[u]].id_ = 0]_vars

\* thread 2 has registered and got index 0, and thread 1, which began
\* later, has just taken index 1
C34_Witness ==
  /\ mynums[2] = {0}
  /\ pc[2] = "idle"
  /\ pc[1] = "k_load"
  /\ GlobalEventMap.item[newp[1]].id_ = 1

\* C35: with no limit (LogLimit = 0) or a limit K >= N, N being the number
\* of entries in the log when dumpLog is called, no entry is discarded
\* unprinted while the dump runs, and the dump that returns has printed all
\* N entries, one line each, and left the log empty.
C35_NoLimitPrintsAll ==
  LET N == Len(DumpLogged)
  IN  (pc[MainThread] \in DumpPcs /\ (LogLimit = 0 \/ LogLimit >= N)) =>
        /\ \A i \in 1..N :
             Cardinality({q \in 1..Len(Items(Log)) :
                            Items(Log)[q] = DumpLogged[i]})
               + Cardinality({q \in 1..Len(DumpLines) :
                                Ticket(DumpLines[q]) = DumpLogged[i].data_})
               = 1
        /\ Dumped => Len(DumpLines) = N /\ Log = EmptyList

\* a dump with a limit equal to the number of entries has returned
C35_Witness ==
  /\ Dumped
  /\ LogLimit = 2
  /\ Len(DumpLogged) = 2
  /\ Len(DumpLines) = 2

(***************************************************************************)
(* LockLog / UnlockLog and the four forms of log: log_inner and            *)
(* timed_log_inner, each with an int payload (LogCall, the client's        *)
(* counter) and with a pointer payload (the default argument nullptr).     *)
(***************************************************************************)
LogPointerCallIgnoresLock(t, event, is_timed) ==
  /\ ~aborted
  /\ pc[t] = "idle"
  /\ NoDump
  /\ CommonI < MaxLogs
  /\ CommonI' = CommonI + 1
  /\ Log' = PushLoad(
              NodeAlloc(Log, LogEvent(t, IF is_timed THEN now ELSE Epoch,
                                      event, Null)),
              NewNode(Log))
  /\ newp' = [newp EXCEPT ![t] = NewNode(Log)]
  /\ op' = [op EXCEPT ![t] = [kind |-> "log", data |-> Null]]
  /\ pc' = [pc EXCEPT ![t] = "log_cas"]
  /\ UNCHANGED <<GlobalEventMap, NProfiledThreads, aborted, LogLimit,
                 Locked_Log, out>>
  /\ LogFrame

\* log(event, nullptr, is_timed): the client counts the call in CommonI
LogPointerCall(t, event, is_timed) ==
  /\ ~aborted
  /\ pc[t] = "idle"
  /\ NoDump
  /\ CommonI < MaxLogs
  /\ CommonI' = CommonI + 1
  /\ IF Locked_Log
     THEN UNCHANGED <<Log, pc, op, newp>>
     ELSE /\ Log' = PushLoad(
                      NodeAlloc(Log,
                                LogEvent(t, IF is_timed THEN now ELSE Epoch,
                                         event, Null)),
                      NewNode(Log))
          /\ newp' = [newp EXCEPT ![t] = NewNode(Log)]
          /\ op' = [op EXCEPT ![t] = [kind |-> "log", data |-> Null]]
          /\ pc' = [pc EXCEPT ![t] = "log_cas"]
  /\ UNCHANGED <<GlobalEventMap, NProfiledThreads, aborted, LogLimit,
                 Locked_Log, out>>
  /\ LogFrame

\* LockLog() and UnlockLog()
SetLockedLog(locked) ==
  /\ ~aborted
  /\ Locked_Log' = locked
  /\ UNCHANGED <<GlobalEventMap, NProfiledThreads, aborted, pc, op, newp,
                 Log, LogLimit, CommonI, out>>
  /\ LogFrame

LockLog == SetLockedLog(TRUE)

UnlockLog == SetLockedLog(FALSE)

\* threads log with an int payload, main also with a pointer payload, and
\* main locks and unlocks the log
NextLock ==
  \/ \E t \in Threads, is_timed \in BOOLEAN : LogCall(t, RUN_ACT, is_timed)
  \/ \E is_timed \in BOOLEAN : LogPointerCall(MainThread, SPRINTF_ACT, is_timed)
  \/ \E t \in Threads : LogPushCas(t)
  \/ LockLog
  \/ UnlockLog

SpecLock == Init /\ [][NextLock]_vars

\* the step is a log call of the client
LogCalled == CommonI' = CommonI + 1

\* C36: a log call made while Locked_Log is set leaves the log as it is and
\* returns at once, whatever its form; a log call made while it is not set
\* allocates a node for its entry, and the push that follows puts the entry
\* at the head of the log and keeps the entries that were there.
C36_LockedLogUnchanged ==
  /\ [][(LogCalled /\ Locked_Log) => (Log' = Log /\ pc' = pc)]_vars
  /\ [][(LogCalled /\ ~Locked_Log) =>
          \E t \in Threads :
            /\ pc[t] = "idle" /\ pc'[t] = "log_cas"
            /\ newp'[t] \notin DOMAIN Log.item
            /\ newp'[t] \in DOMAIN Log'.item
            /\ Log'.item[newp'[t]].id_ = t
            /\ Items(Log') = Items(Log)]_vars
  /\ [][\A t \in Threads :
          (pc[t] = "log_cas" /\ pc'[t] = "idle") =>
            Items(Log') = <<Log.item[newp[t]]>> \o Items(Log)]_vars

\* two calls or more were dropped while the log was locked, and after
\* UnlockLog a timed call has appended its entry
C36_Witness ==
  /\ ~Locked_Log
  /\ Quiescent
  /\ CommonI >= 3
  /\ Len(Items(Log)) = 1
  /\ Items(Log)[1].when_ > Epoch

\* C37: the generic printer is defaultPrinter at the start and is never
\* null; every registerLogPrinter(printer) call for the generic printer
\* leaves it equal to printer, or to defaultPrinter when printer is null,
\* whatever it was before, and changes no specific printer; and dumpLog
\* renders every entry whose code has no specific printer with the generic
\* printer of that moment.
C37_GenericPrinter ==
  /\ AllLogPrinter = "defaultPrinter"
  /\ [](AllLogPrinter \in AllLogPrinterFunctions)
  /\ [][\A printer \in AllLogPrinterFunctions \cup {nullptr} :
          RegisterAllLogPrinter(printer) =>
            /\ AllLogPrinter' =
                 IF printer = nullptr THEN "defaultPrinter" ELSE printer
            /\ LogPrinters' = LogPrinters]_vars
  /\ [][Len(out') = Len(out) + 1 =>
          LET l == Log.item[Log.head]
          IN  l.event_id_ \notin DOMAIN LogPrinters =>
                /\ out'[Len(out')].text
                     = <<AllLogPrinter, l.event_id_, l.data_>>
                /\ AllLogPrinter' = AllLogPrinter]_vars

\* lines printed by defaultPrinter, then by generic_printer, then by
\* defaultPrinter again
C37_Witness ==
  \E i, j, k \in 1..Len(out) :
    /\ i < j /\ j < k
    /\ out[i].text[1] = "defaultPrinter"
    /\ out[j].text[1] = "generic_printer"
    /\ out[k].text[1] = "defaultPrinter"

(***************************************************************************)
(* ConcurrentSList with a single consumer: try_pop, reverse and            *)
(* try_head_pop applied in any order, while no push is in progress, to the *)
(* lists that pushes and pops build. op holds what the latest call         *)
(* returned.                                                               *)
(***************************************************************************)
tryPopNewest(L) == try_head_pop(L)

\* try_pop: while (p->next_ != nullptr) { q = p; p = p->next_; }
RECURSIVE LastFrom(_, _, _)
LastFrom(L, p, q) ==
  IF L.next[p] = Null THEN [p |-> p, q |-> q]
  ELSE LastFrom(L, L.next[p], p)

\* try_pop(val): from the bottom of the list
try_pop(L) ==
  IF L.head = Null THEN [ok |-> FALSE, list |-> L]
  ELSE LET w == LastFrom(L, L.head, Null)
       IN  [ok |-> TRUE, val |-> L.item[w.p],
            list |-> DeleteNode(IF w.p = L.head
                                THEN [L EXCEPT !.head = Null]
                                ELSE [L EXCEPT !.next[w.q] = Null],
                                w.p)]

ListFrame ==
  /\ UNCHANGED <<GlobalEventMap, NProfiledThreads, aborted, pc, newp,
                 LogLimit, Locked_Log, CommonI, out>>
  /\ LogFrame

\* Log.try_pop(val)
ListTryPop(t) ==
  /\ Quiescent
  /\ Log' = try_pop(Log).list
  /\ op' = [op EXCEPT ![t] = [kind |-> "try_pop", ret |-> try_pop(Log)]]
  /\ ListFrame

\* Log.try_head_pop(val)
ListTryHeadPop(t) ==
  /\ Quiescent
  /\ Log' = try_head_pop(Log).list
  /\ op' = [op EXCEPT ![t] = [kind |-> "try_head_pop",
                              ret |-> try_head_pop(Log)]]
  /\ ListFrame

\* Log.reverse()
ListReverse(t) ==
  /\ Quiescent
  /\ Log' = reverse(Log)
  /\ op' = [op EXCEPT ![t] = [kind |-> "reverse"]]
  /\ ListFrame

\* threads push; main pops and reverses while no push is in progress
NextList ==
  \/ \E t \in Threads : LogCall(t, RUN_ACT, FALSE)
  \/ \E t \in Threads : LogPushCas(t)
  \/ ListTryPop(MainThread)
  \/ ListTryHeadPop(MainThread)
  \/ ListReverse(MainThread)

SpecList == Init /\ [][NextList]_vars

\* the items repeated try_pop calls return, until one returns false
RECURSIVE DrainTail(_)
DrainTail(L) ==
  IF ~try_pop(L).ok THEN <<>>
  ELSE <<try_pop(L).val>> \o DrainTail(try_pop(L).list)

\* the items repeated try_head_pop calls return, until one returns false
RECURSIVE DrainHead(_)
DrainHead(L) ==
  IF ~try_head_pop(L).ok THEN <<>>
  ELSE <<try_head_pop(L).val>> \o DrainHead(try_head_pop(L).list)

\* the list holds its items as the pushes left them, the newest at the head
InPushOrder(L) ==
  \A i, j \in 1..Len(Items(L)) :
    i < j => Items(L)[i].data_ > Items(L)[j].data_

\* C38: try_pop on an empty list returns false and leaves it empty; on a
\* list of k >= 1 items it returns the item at the bottom, which is the
\* oldest pushed item of a list in push order, deletes that node and leaves
\* the other k-1 items in their order; and emptying a list by repeated
\* try_pop gives the items in the order in which reverse() followed by
\* repeated try_head_pop gives them.
C38_TryPopOldest ==
  /\ [][(Quiescent /\ pc' = pc /\ op'[MainThread].kind = "try_pop") =>
          LET k == Len(Items(Log))
              ret == op'[MainThread].ret
          IN  IF k = 0
              THEN ~ret.ok /\ Log' = Log
              ELSE /\ ret.ok
                   /\ ret.val = Items(Log)[k]
                   /\ Items(Log') = SubSeq(Items(Log), 1, k - 1)
                   /\ Cardinality(DOMAIN Log'.item)
                        = Cardinality(DOMAIN Log.item) - 1
                   /\ InPushOrder(Log) =>
                        \A i \in 1..k : ret.val.data_ <= Items(Log)[i].data_
       ]_vars
  /\ [](DrainTail(Log) = DrainHead(reverse(Log)))

\* try_pop has removed the oldest of three pushed items and the two others
\* are left in push order
C38_Witness ==
  /\ op[MainThread].kind = "try_pop"
  /\ op[MainThread].ret.ok
  /\ op[MainThread].ret.val.data_ = 0
  /\ Len(Items(Log)) = 2
  /\ InPushOrder(Log)

\* the sequence s from its last element to its first
Reversed(s) == [i \in 1..Len(s) |-> s[Len(s) + 1 - i]]

\* C39: reverse(), run while no push is in progress, keeps the nodes and
\* the item of each node, and the items from the head on are the former
\* ones in the opposite order, so that the head of a list in push order
\* becomes the oldest pushed item; a list of no or one item is left as it
\* is; and reverse() applied twice gives back the list it started from.
C39_ReverseReverses ==
  /\ [][(Quiescent /\ pc' = pc /\ op'[MainThread].kind = "reverse") =>
          LET k == Len(Items(Log))
          IN  /\ Items(Log') = Reversed(Items(Log))
              /\ Log'.item = Log.item
              /\ k <= 1 => Log' = Log
              /\ k >= 1 => Items(Log')[1] = Items(Log)[k]
              /\ (k >= 1 /\ InPushOrder(Log)) =>
                   \A i \in 1..k :
                     Items(Log')[1].data_ <= Items(Log)[i].data_
       ]_vars
  /\ [](Quiescent => reverse(reverse(Log)) = Log)

\* reverse() has turned a list of three items in push order round
C39_Witness ==
  /\ op[MainThread].kind = "reverse"
  /\ Len(Items(Log)) = 3
  /\ Items(Log)[1].data_ = 0
  /\ Items(Log)[3].data_ = 2

====
